---- MODULE Spec2Model ----
(***************************************************************************)
(* hdl-wave-ai: the VCD dump parser (parseVcd, formatBits) and the         *)
(* in-memory WaveformIndex of src/waveform/vcd.ts, as state machines.      *)
(*                                                                         *)
(* Text is modelled by TLA+ strings; a character is a string of length 1.  *)
(* JavaScript numbers that can be NaN are integers or the sentinel NaN.    *)
(* IEEE-754 doubles wider than TLC's integers are bit strings.           *)
(***************************************************************************)
EXTENDS Integers, Sequences, FiniteSets, TLC

\* ------------------------------------------------------------------------
\* Bounds of the model (not program constants)
\* ------------------------------------------------------------------------
MaxDataLines == 4

MaxBitsLen == 55

MaxN == 34

MaxCap == 28

MaxFreePolls == 3

MaxBelow == 5

MaxExitEnd == 6

MaxWindowEnd == 9

MaxServerCalls == 4

MaxAdapterLines == 2

MaxStatements == 4

MaxPanelQueries == 3

MaxPanels == 4

MaxExecCalls == 1

MaxViewerOps == 3

\* ------------------------------------------------------------------------
\* JavaScript string primitives
\* ------------------------------------------------------------------------
CharAt(s, k) == SubSeq(s, k, k)

\* String.prototype.trim / \s of the regular expressions
Whitespace == {" ", "\t", "\r"}

Digits == {"0", "1", "2", "3", "4", "5", "6", "7", "8", "9"}

\* \w of the regular expressions
WordChars == Digits \cup {"_"} \cup
    {"a", "b", "c", "d", "e", "f", "g", "h", "i", "j", "k", "l", "m",
     "n", "o", "p", "q", "r", "s", "t", "u", "v", "w", "x", "y", "z",
     "A", "B", "C", "D", "E", "F", "G", "H", "I", "J", "K", "L", "M",
     "N", "O", "P", "Q", "R", "S", "T", "U", "V", "W", "X", "Y", "Z"}

StartsWith(s, p) == Len(s) >= Len(p) /\ SubSeq(s, 1, Len(p)) = p

EndsWith(s, p) == Len(s) >= Len(p) /\ SubSeq(s, Len(s) - Len(p) + 1, Len(s)) = p

Includes(s, p) == \E k \in 1..(Len(s) - Len(p) + 1) : SubSeq(s, k, k + Len(p) - 1) = p

\* String.prototype.indexOf for a one-character needle: 0-based, -1 if absent
IndexOf(s, c) ==
    IF \E k \in 1..Len(s) : CharAt(s, k) = c
    THEN (CHOOSE k \in 1..Len(s) : CharAt(s, k) = c /\ \A j \in 1..(k - 1) : CharAt(s, j) # c) - 1
    ELSE -1

\* String.prototype.slice(from) and slice(from, to) with 0-based bounds
SliceFrom(s, from) == SubSeq(s, from + 1, Len(s))

Slice(s, from, to) == SubSeq(s, from + 1, to)

RECURSIVE TrimStart(_)
TrimStart(s) ==
    IF Len(s) > 0 /\ CharAt(s, 1) \in Whitespace THEN TrimStart(Tail(s)) ELSE s

RECURSIVE TrimEnd(_)
TrimEnd(s) ==
    IF Len(s) > 0 /\ CharAt(s, Len(s)) \in Whitespace
    THEN TrimEnd(SubSeq(s, 1, Len(s) - 1)) ELSE s

Trim(s) == TrimEnd(TrimStart(s))

ToLowerCase(c) == IF c = "X" THEN "x" ELSE IF c = "Z" THEN "z" ELSE c

\* the whitespace-separated tokens of a text, in order
RECURSIVE Tokens(_)
Tokens(s) ==
    LET t == TrimStart(s)
    IN  IF t = "" THEN << >>
        ELSE LET ends == {k \in 1..Len(t) : CharAt(t, k) \in Whitespace}
                 stop == IF ends = {} THEN Len(t) + 1
                         ELSE CHOOSE k \in ends : \A j \in ends : k <= j
             IN  <<SubSeq(t, 1, stop - 1)>> \o Tokens(SubSeq(t, stop, Len(t)))

AllIn(s, chars) == \A k \in 1..Len(s) : CharAt(s, k) \in chars

\* ------------------------------------------------------------------------
\* Numbers: parseInt(_, 10) and NaN
\* ------------------------------------------------------------------------
NaN == -999999

IsNaN(v) == v = NaN

\* v > w and v <= w, v >= w of JavaScript: every comparison with NaN is false
JsGt(v, w) == ~IsNaN(v) /\ ~IsNaN(w) /\ v > w

JsLe(v, w) == ~IsNaN(v) /\ ~IsNaN(w) /\ v <= w

JsGe(v, w) == ~IsNaN(v) /\ ~IsNaN(w) /\ v >= w

DigitValue(c) ==
    CASE c = "0" -> 0 [] c = "1" -> 1 [] c = "2" -> 2 [] c = "3" -> 3
      [] c = "4" -> 4 [] c = "5" -> 5 [] c = "6" -> 6 [] c = "7" -> 7
      [] c = "8" -> 8 [] c = "9" -> 9

\* value of the longest prefix of decimal digits, given the value so far
RECURSIVE DigitRun(_, _)
DigitRun(s, acc) ==
    IF Len(s) > 0 /\ CharAt(s, 1) \in Digits
    THEN DigitRun(Tail(s), 10 * acc + DigitValue(CharAt(s, 1)))
    ELSE acc

\* parseInt(s, 10): leading whitespace, an optional sign, then digits up to
\* the first non-digit; NaN when there is no digit
ParseInt(s) ==
    LET t    == TrimStart(s)
        neg  == Len(t) > 0 /\ CharAt(t, 1) = "-"
        sgn  == Len(t) > 0 /\ CharAt(t, 1) \in {"-", "+"}
        body == IF sgn THEN Tail(t) ELSE t
    IN  IF Len(body) = 0 \/ CharAt(body, 1) \notin Digits THEN NaN
        ELSE IF neg THEN 0 - DigitRun(body, 0) ELSE DigitRun(body, 0)

\* ------------------------------------------------------------------------
\* Bit strings (most significant bit first) standing for large integers.
\* The recursions are functions, so that their arguments are values.
\* ------------------------------------------------------------------------
MantissaBits == 53

\* String.prototype.repeat for a one-character string
Repeat[c \in STRING, n \in Int] ==
    IF n <= 0 THEN ""
    ELSE IF n = 1 THEN c
    ELSE Repeat[c, n \div 2] \o Repeat[c, n - (n \div 2)]

\* the numeral without its leading zeros ("0" for zero)
StripZeros(b) ==
    LET ones == {k \in 1..Len(b) : CharAt(b, k) = "1"}
    IN  IF ones = {} THEN (IF Len(b) = 0 THEN "" ELSE "0")
        ELSE SubSeq(b, CHOOSE k \in ones : \A j \in ones : k <= j, Len(b))

BitsToNat[b \in STRING, acc \in Nat] ==
    IF Len(b) = 0 THEN acc
    ELSE BitsToNat[Tail(b), 2 * acc + (IF CharAt(b, 1) = "1" THEN 1 ELSE 0)]

NatToBits[n \in Nat] ==
    IF n < 2 THEN (IF n = 1 THEN "1" ELSE "0")
    ELSE NatToBits[n \div 2] \o (IF n % 2 = 1 THEN "1" ELSE "0")

\* b + 1
Inc(b) ==
    LET zeros == {k \in 1..Len(b) : CharAt(b, k) = "0"}
    IN  IF zeros = {} THEN "1" \o Repeat["0", Len(b)]
        ELSE LET last == CHOOSE k \in zeros : \A j \in zeros : k >= j
             IN  SubSeq(b, 1, last - 1) \o "1" \o Repeat["0", Len(b) - last]

\* b * k + carry for a small natural k
MulSmall[b \in STRING, k \in Nat, carry \in Nat] ==
    IF Len(b) = 0 THEN (IF carry = 0 THEN "" ELSE NatToBits[carry])
    ELSE LET d == (IF CharAt(b, Len(b)) = "1" THEN k ELSE 0) + carry
         IN  MulSmall[SubSeq(b, 1, Len(b) - 1), k, d \div 2] \o (IF d % 2 = 1 THEN "1" ELSE "0")

\* Round a binary numeral to MantissaBits significant bits, ties to even.
\* sticky: a non-zero part below the last bit of b was already dropped.
\* The dropped positions become zeros when keepLow, and are cut off
\* otherwise (the caller then moves the binary point).
RoundBits[b \in STRING, sticky \in BOOLEAN, keepLow \in BOOLEAN] ==
    LET s == StripZeros(b)
    IN  IF Len(s) <= MantissaBits
        THEN [bits |-> s, dropped |-> 0]
        ELSE LET top   == SubSeq(s, 1, MantissaBits)
                 rest  == SubSeq(s, MantissaBits + 1, Len(s))
                 guard == CharAt(rest, 1) = "1"
                 below == sticky \/ \E k \in 2..Len(rest) : CharAt(rest, k) = "1"
                 odd   == CharAt(top, MantissaBits) = "1"
                 up    == guard /\ (below \/ odd)
                 kept  == IF up THEN Inc(top) ELSE top
             IN  [bits    |-> IF keepLow THEN kept \o Repeat["0", Len(rest)] ELSE kept,
                  dropped |-> Len(rest)]

HexDigit(n) ==
    CASE n = 0 -> "0" [] n = 1 -> "1" [] n = 2 -> "2" [] n = 3 -> "3"
      [] n = 4 -> "4" [] n = 5 -> "5" [] n = 6 -> "6" [] n = 7 -> "7"
      [] n = 8 -> "8" [] n = 9 -> "9" [] n = 10 -> "A" [] n = 11 -> "B"
      [] n = 12 -> "C" [] n = 13 -> "D" [] n = 14 -> "E" [] n = 15 -> "F"

Nibbles[b \in STRING] ==
    IF Len(b) = 0 THEN ""
    ELSE HexDigit(BitsToNat[SubSeq(b, 1, 4), 0]) \o Nibbles[SubSeq(b, 5, Len(b))]

\* the hexadecimal numeral, upper case, of the integer a bit string stands for
HexOfBits(b) ==
    LET s   == StripZeros(b)
        pad == (4 - (Len(s) % 4)) % 4
    IN  Nibbles[Repeat["0", pad] \o s]

\* parseInt(padded, 2): the double nearest to the binary numeral
ParseIntBase2(padded) == RoundBits[padded, FALSE, TRUE].bits

\* Number.prototype.toString(16).toUpperCase() of an integral double
ToStringHexUpper(d) == HexOfBits(d)

\* String.prototype.padStart(width, fill) for a one-character fill
PadStart(bits, width, fill) == Repeat[fill, width - Len(bits)] \o bits

formatBits(bits, width) ==
    IF width <= 1 THEN bits
    ELSE LET fill   == IF Len(bits) > 0 /\ CharAt(bits, 1) \in {"x", "X"} THEN "x" ELSE "0"
             padded == PadStart(bits, width, fill)
         IN  IF Len(padded) > 0 /\ AllIn(padded, {"0", "1"})
             THEN padded \o " (0x" \o ToStringHexUpper(ParseIntBase2(padded)) \o ")"
             ELSE padded

\* ------------------------------------------------------------------------
\* IEEE-754 double arithmetic of the stride computation.  A double is
\* [bits, frac]: the numeral bits with the binary point frac places from the
\* right, of at most MantissaBits significant bits.
\* ------------------------------------------------------------------------
\* the first k bits of the binary fraction r / d, for 0 <= r < d
FracBits[r \in Nat, d \in Nat, k \in Nat] ==
    IF k = 0 THEN ""
    ELSE (IF 2 * r >= d THEN "1" ELSE "0") \o FracBits[(2 * r) % d, d, k - 1]

\* the remainder left after those k bits
FracRem[r \in Nat, d \in Nat, k \in Nat] ==
    IF k = 0 THEN r ELSE FracRem[(2 * r) % d, d, k - 1]

\* n / d in double arithmetic, for naturals n >= d >= 1
DivDouble[n \in Nat, d \in Nat] ==
    LET ib == NatToBits[n \div d]
        p  == MantissaBits - Len(ib)
        r  == RoundBits[ib \o FracBits[n % d, d, p + 1], FracRem[n % d, d, p + 1] # 0, FALSE]
    IN  [bits |-> r.bits, frac |-> p + 1 - r.dropped]

\* i * v in double arithmetic, for a small natural i and a double v
MulDouble[i \in Nat, vbits \in STRING, vfrac \in Nat] ==
    LET r == RoundBits[MulSmall[vbits, i, 0], FALSE, FALSE]
    IN  [bits |-> r.bits, frac |-> vfrac - r.dropped]

\* Math.round of a non-negative double: nearest integer, ties upward
MathRound[vbits \in STRING, vfrac \in Nat] ==
    LET b      == Repeat["0", vfrac + 1 - Len(vbits)] \o vbits
        intLen == Len(b) - vfrac
    IN  BitsToNat[SubSeq(b, 1, intLen), 0]
          + (IF vfrac >= 1 /\ CharAt(b, intLen + 1) = "1" THEN 1 ELSE 0)

\* Math.round(i * step) with step = n / cap
StrideIndex[i \in Nat, n \in Nat, cap \in Nat] ==
    LET step == DivDouble[n, cap]
        prod == MulDouble[i, step.bits, step.frac]
    IN  MathRound[prod.bits, prod.frac]

\* ------------------------------------------------------------------------
\* parseVcd: the pieces of one loop iteration
\* ------------------------------------------------------------------------
\* Map.get / Map.set on a map held as a function with a finite domain
EmptyMap == [k \in {} |-> ""]

MapHas(m, key) == key \in DOMAIN m

MapSet(m, key, val) == [k \in DOMAIN m \cup {key} |-> IF k = key THEN val ELSE m[k]]

\* Set.add on a set held in insertion order
SetAdd(seq, e) == IF \E k \in 1..Len(seq) : seq[k] = e THEN seq ELSE Append(seq, e)

\* text.replace(/\$end\b.*/, ''): cut at the first "$end" that ends a word
ReplaceEnd(text) ==
    LET hits == {k \in 1..(Len(text) - 3) :
                    /\ SubSeq(text, k, k + 3) = "$end"
                    /\ (k + 4 > Len(text) \/ CharAt(text, k + 4) \notin WordChars)}
    IN  IF hits = {} THEN text
        ELSE SubSeq(text, 1, (CHOOSE k \in hits : \A j \in hits : k <= j) - 1)

\* collectUntilEnd(startLine) with i lines consumed: the loop appends lines
\* while the text has no "$end" and lines remain; text is the gathered text
\* before the final replace and trim, i the lines consumed after it
RECURSIVE CollectLoop(_, _, _)
CollectLoop(text, lines, k) ==
    IF ~Includes(text, "$end") /\ k < Len(lines)
    THEN CollectLoop(text \o " " \o Trim(lines[k + 1]), lines, k + 1)
    ELSE [text |-> text, i |-> k]

collectUntilEnd(startLine, lines, k) ==
    LET r == CollectLoop(startLine, lines, k)
    IN  [text |-> Trim(ReplaceEnd(r.text)), i |-> r.i]

\* "while (i < total && !lines[i].includes('$end')) { i++; }  i++;"
RECURSIVE SkipLoop(_, _)
SkipLoop(lines, k) ==
    IF k < Len(lines) /\ ~Includes(lines[k + 1], "$end") THEN SkipLoop(lines, k + 1) ELSE k

SkipToEndLine(lines, k) == SkipLoop(lines, k) + 1

\* full.match(/\$scope\s+\w+\s+(\S+)/): the captured name, or no match
MatchScope(full) ==
    LET tk   == Tokens(full)
        hits == {k \in 1..(Len(tk) - 2) :
                    EndsWith(tk[k], "$scope") /\ AllIn(tk[k + 1], WordChars)}
    IN  IF hits = {} THEN [matched |-> FALSE, name |-> ""]
        ELSE LET k == CHOOSE h \in hits : \A j \in hits : h <= j
             IN  [matched |-> TRUE, name |-> tk[k + 2]]

\* full.match(/\$var\s+\S+\s+(\d+)\s+(\S+)\s+(\S+)/): the three captures
MatchVar(full) ==
    LET tk   == Tokens(full)
        hits == {k \in 1..(Len(tk) - 4) :
                    EndsWith(tk[k], "$var") /\ AllIn(tk[k + 2], Digits)}
    IN  IF hits = {} THEN [matched |-> FALSE, width |-> "", id |-> "", name |-> ""]
        ELSE LET k == CHOOSE h \in hits : \A j \in hits : h <= j
             IN  [matched |-> TRUE, width |-> tk[k + 2], id |-> tk[k + 3], name |-> tk[k + 4]]

\* m[3].replace(/\[.*\]$/, ''): strip a trailing [n:m]
StripRange(name) ==
    LET opens == {k \in 1..(Len(name) - 1) : CharAt(name, k) = "["}
    IN  IF EndsWith(name, "]") /\ opens # {}
        THEN SubSeq(name, 1, (CHOOSE k \in opens : \A j \in opens : k <= j) - 1)
        ELSE name

\* [...scopeStack, name].join('.')
RECURSIVE JoinDot(_)
JoinDot(parts) ==
    IF Len(parts) = 0 THEN ""
    ELSE IF Len(parts) = 1 THEN parts[1]
    ELSE JoinDot(SubSeq(parts, 1, Len(parts) - 1)) \o "." \o parts[Len(parts)]

\* a pop that leaves the stack as it is
PopNothing(stack) == stack

\* scopeStack.pop()
Pop(stack) == IF Len(stack) = 0 THEN stack ELSE SubSeq(stack, 1, Len(stack) - 1)

\* a declaration table in which the first declaration of an id is kept
SetSignalDefFirstWins(defs, id, sig) == IF MapHas(defs, id) THEN defs ELSE MapSet(defs, id, sig)

\* signalDefs.set(id, { id, path, width }): a duplicate id is overwritten
SetSignalDef(defs, id, sig) == MapSet(defs, id, sig)

\* the $var branch: the declaration a statement makes, if it matches
DeclareVar(defs, stack, full) ==
    LET m == MatchVar(full)
    IN  IF m.matched
        THEN LET width == ParseInt(m.width)
                 name  == StripRange(m.name)
                 path  == JoinDot(Append(stack, name))
             IN  SetSignalDef(defs, m.id, [id |-> m.id, path |-> path, width |-> width])
        ELSE defs

\* the shape of a data line: which branch of the data loop takes it, and
\* the identifier and raw value it carries
ParseRecord(line) ==
    LET sp == IndexOf(line, " ")
    IN  IF CharAt(line, 1) \in {"b", "B"}
        THEN IF sp > 0
             THEN [kind |-> "vector", id |-> Trim(SliceFrom(line, sp + 1)), val |-> Slice(line, 1, sp)]
             ELSE [kind |-> "none", id |-> "", val |-> ""]
        ELSE IF CharAt(line, 1) \in {"r", "R"}
        THEN IF sp > 0
             THEN [kind |-> "real", id |-> Trim(SliceFrom(line, sp + 1)), val |-> Slice(line, 1, sp)]
             ELSE [kind |-> "none", id |-> "", val |-> ""]
        ELSE IF Len(line) >= 2 /\ CharAt(line, 1) \in {"0", "1", "x", "X", "z", "Z"}
        THEN [kind |-> "scalar", id |-> Trim(SliceFrom(line, 1)), val |-> ToLowerCase(CharAt(line, 1))]
        ELSE [kind |-> "none", id |-> "", val |-> ""]

\* the stored value of a record for a signal of the given width
FormattedValue(rec, width) ==
    IF rec.kind = "vector" THEN formatBits(rec.val, width) ELSE rec.val

\* an emit that does not add the path to signalsWithTransitions
EmitNoCatalog(st, path, value) ==
    IF ~MapHas(st.lastValues, path) \/ st.lastValues[path] # value
    THEN [st EXCEPT !.transitions = Append(@, [time |-> st.currentTime, signal |-> path, value |-> value]),
                    !.lastValues = MapSet(@, path, value)]
    ELSE st

\* "if (lastValues.get(sig.path) !== v) { push; lastValues.set; add }" on a
\* data-phase state st
Emit(st, path, value) ==
    IF ~MapHas(st.lastValues, path) \/ st.lastValues[path] # value
    THEN [st EXCEPT !.transitions = Append(@, [time |-> st.currentTime, signal |-> path, value |-> value]),
                    !.lastValues = MapSet(@, path, value),
                    !.signalsWithTransitions = SetAdd(@, path)]
    ELSE st

\* one iteration of the data loop on the line raw, from data-phase state st
DataStep(st, defs, rawLine) ==
    LET line == Trim(rawLine)
        rec  == ParseRecord(line)
    IN  IF line = "" THEN st
        ELSE IF StartsWith(line, "$")
        THEN [st EXCEPT !.skipToEnd = ~Includes(line, "$end")]
        ELSE IF st.skipToEnd THEN st
        ELSE IF StartsWith(line, "#")
        THEN LET t == ParseInt(SliceFrom(line, 1))
             IN  [st EXCEPT !.currentTime = t,
                            !.endTime = IF JsGt(t, @) THEN t ELSE @]
        ELSE IF rec.kind # "none" /\ MapHas(defs, rec.id)
        THEN Emit(st, defs[rec.id].path, FormattedValue(rec, defs[rec.id].width))
        ELSE st

\* WaveformIndex constructor: the bucket of each signal, in log order
BySignal(log) ==
    [sig \in {log[k].signal : k \in 1..Len(log)} |->
        SelectSeq(log, LAMBDA t : t.signal = sig)]

\* ------------------------------------------------------------------------
\* parseVcd as a state machine: one action per iteration of its two loops.
\* The input is the text of lines (a header, possibly with the start of the
\* data section) followed by data lines that are drawn as they are read.
\* ------------------------------------------------------------------------
VARIABLES
    lines,                   \* content.split('\n'), the part fixed in advance
    i,                       \* index of the next line to read
    signalDefs,              \* Map id -> [id, path, width]
    scopeStack,              \* sequence of scope names
    timescale,
    currentTime,
    endTime,
    transitions,             \* the log: sequence of [time, signal, value]
    lastValues,              \* Map path -> last recorded value
    signalsWithTransitions,  \* Set of paths, in insertion order
    skipToEnd,
    pc,                      \* "header", "data", "done" (returned)
    raw,                     \* the line the last iteration read
    drawn,                   \* number of data lines read beyond lines
    declared,                \* history: the declarations made, in order
    unwrapped,               \* the data-phase state of the same parse run on
                             \* the dump without its bulk-dump wrapper lines
    bracket                  \* history: "out" / "in" a wrapper, "bad" if unpaired

parseVars == <<lines, i, signalDefs, scopeStack, timescale, currentTime, endTime,
               transitions, lastValues, signalsWithTransitions, skipToEnd, pc, raw,
               drawn, declared, unwrapped, bracket>>

\* the state of a formatBits call
VARIABLES
    fBits,     \* argument bits
    fWidth,    \* argument width
    fOut,      \* the value returned
    fDone      \* formatBits has returned

fmtVars == <<fBits, fWidth, fOut, fDone>>

\* the state of a WaveformIndex and of the call made on it
VARIABLES
    qLog,       \* data.transitions handed to the constructor
    qSignals,   \* this.signals
    bySignal,   \* this.bySignal: Map signal -> bucket
    qCall,      \* the last call: [op, signal, tStart, tEnd, cap, time]
    qResult,    \* the list queryTransitions returned
    qValue,     \* the value getValueAt returned
    qList,      \* the list listSignals returned
    qRepeated   \* the call has been made a second time

queryVars == <<qLog, qSignals, bySignal, qCall, qResult, qValue, qList, qRepeated>>

\* the state of one collectTransitions run
VARIABLES
    sStart,     \* argument startTime
    sEnd,       \* argument endTime
    sStep,      \* argument stepSize
    sEff,       \* effectiveStep
    sTime,      \* the loop variable time
    sLog,       \* transitions
    sLast,      \* lastValues
    sPc,        \* "idle", "loop", "done" (returned)
    sRaw,       \* the response of the last poll
    sPolls,     \* history: number of polls issued, counted up to PollCountMax
    sFree,      \* number of polls the viewer still answers with data of its choice
    sOdd,       \* history: the number of polls issued is odd
    eEmpty,     \* history: fully empty responses in a row
    eSame,      \* history: responses with data, without change or edge, in a row
    eInformative, \* history: a response with data has been seen
    eCancel     \* the abort signal: cancellation has been requested

exitVars == <<eEmpty, eSame, eInformative, eCancel>>

samplerVars == <<sStart, sEnd, sStep, sEff, sTime, sLog, sLast, sPc, sRaw, sPolls, sFree,
                 sOdd, exitVars>>

\* the state of one buildWaveformContext call
VARIABLES
    wHasUri,    \* getActiveDocumentUri found a document
    wSignals,   \* tracker.getSignals(uri).length
    wState,     \* the viewer state: [defined, markerTime, altMarkerTime, timeEnd, maxTime, totalTime]
    wArgs,      \* the arguments [startTime, endTime, stepSize]
    wPc,        \* "idle", "start" (called), "collect" (in collectTransitions), "done"
    wStart,     \* resolvedStart
    wEnd,       \* resolvedEnd
    wCtx        \* the value returned: [isNull, startTime, endTime, transitions]

windowVars == <<wHasUri, wSignals, wState, wArgs, wPc, wStart, wEnd, wCtx>>

\* the state of one parseWaveformFile call
VARIABLES
    aPath,      \* argument filePath
    aExec,      \* what execFileAsync('fst2vcd', ...) does: [ok, stdout, code, message]
    aRead,      \* what fs.readFileSync does: [ok, text]
    aPc,        \* "idle", "call", "parse" (in parseVcd), "done"
    aOut        \* how the call ended: [kind, message], kind "none", "result" or "error"

adapterVars == <<aPath, aExec, aRead, aPc, aOut>>

\* the state of the MCP server
VARIABLES
    mIndex,     \* waveformIndex: [loaded, uri, signals, bySignal, endTime]
    mLoading,   \* the paths whose load_waveform awaits parseWaveformFile
    mReply,     \* the last reply of a tool: [tool, kind, uri, data]
    mCalls,     \* history: number of tool calls made
    mIssued     \* history: the paths of the load_waveform requests that reached the
                \* parse, in the order they were issued

serverVars == <<mIndex, mLoading, mReply, mCalls, mIssued>>

\* the state of the chat panel
VARIABLES
    pHistory,       \* this.history: entries [role, q, ctx]
    pSent,          \* this.waveformContextSent
    pCtl,           \* this.currentAbortController: 0 is undefined, q the one of query q
    pAborted,       \* the controllers whose signal is aborted
    pPreloaded,     \* this.preloadedContext is set (file mode)
    pEarlyProvider, \* createProvider() is called before the collection, outside the try
    pQ,             \* the handleMessage call of each query: its position and locals
    pSendDisabled,  \* sendEl.disabled of the webview
    pInjected       \* history: a query has set waveformContextSent since the last reset

panelVars == <<pHistory, pSent, pCtl, pAborted, pPreloaded, pEarlyProvider, pQ, pSendDisabled,
              pInjected>>

\* the registration of the chat panel
VARIABLES
    cInstance,  \* ChatPanel.instance: 0 is undefined, n the n-th panel created
    cAlive,     \* the webview panels created and not disposed
    cPending,   \* the panels whose onDidDispose callback has yet to run
    cPreloaded, \* the panels whose preloadedContext is set
    cMade       \* history: the number of panels created

instVars == <<cInstance, cAlive, cPending, cPreloaded, cMade>>

\* the tool executor of the chat panel, run on two indexes side by side
VARIABLES
    xIdx,       \* idx: [signals, bySignal, endTime]
    xOther,     \* a second index, which agrees with idx on the selected signals
    xSel,       \* selSet: null, or the set of the selected signals
    xCall,      \* the last tool call: [name, args]
    xOut,       \* what the executor returned for it on idx
    xOutOther,  \* what the executor returned for it on the second index
    xCalls      \* history: the number of tool calls made

execVars == <<xIdx, xOther, xSel, xCall, xOut, xOutOther, xCalls>>

\* the tool loop of a provider client: chatWithTools
VARIABLES
    lClient,    \* the client that runs the loop: "anthropic" or "openai"
    lPc,        \* where the loop is: "top", "awaiting", "retrying", "done", "threw"
    lRound,     \* round
    lAborted,   \* signal?.aborted
    lResp,      \* the last response of a tool-calling round
    lResult,    \* the text the loop returned
    lExit,      \* the return statement taken
    lRequests,  \* history: the requests of tool-calling rounds issued
    lRetries,   \* history: the plain-text retries issued
    lToolRuns   \* history: the calls of the tool executor

loopVars == <<lClient, lPc, lRound, lAborted, lResp, lResult, lExit, lRequests, lRetries,
              lToolRuns>>

\* the state of the extension host outside the chat panel's handler
\* the waveform viewer and the SignalTracker that follows it
VARIABLES
    vDocs,      \* the documents open in the viewer, in its order
    vShown,     \* the signals the viewer displays, by uri
    vEvents,    \* the add and remove events fired and not yet delivered
    vOps,       \* history: the number of changes made in the viewer
    tSignals,   \* SignalTracker.signals: uri -> instance paths
    tPc,        \* where initialize() is: "docs", "state", "apply", "done"
    tDocs,      \* docs.documents
    tAt,        \* the place in docs.documents of the uri of the for loop
    tState      \* state.displayedSignals of the pending getViewerState

trackVars == <<vDocs, vShown, vEvents, vOps, tSignals, tPc, tDocs, tAt, tState>>

hostVars == <<instVars, execVars, loopVars, trackVars>>

vars == <<parseVars, fmtVars, queryVars, samplerVars, windowVars, adapterVars, serverVars, panelVars, hostVars>>

\* the headers parsed: well-formed, with an aliased identifier code, with two
\* codes for one path, with multi-line statements, truncated, and empty
SampleHeaders ==
    {<<"$timescale 1ps $end", "$scope module tb $end", "$var wire 1 ! clk $end",
       "$var wire 4 \" data[3:0] $end", "$upscope $end", "$enddefinitions $end">>,
     <<"$date", "today", "$end", "", "$var wire 1 ! clk $end", "$var reg 4 ! q $end",
       "$enddefinitions $end", "#0", "$dumpvars", "b1 !", "$end">>,
     <<"$var wire 1 ! clk $end", "$var wire 1", "\" clk", "$end", "$var wire w # bad $end",
       "$enddefinitions", "$end">>,
     <<"$version x $end", "$timescale", "1ps", "$end", "$scope module", "tb $end",
       "$var wire 1 ! clk">>,
     <<"$enddefinitions $end">>,
     << >>}

\* lines the data section can hold
DataVocab ==
    {"#5", "#3", "#-2", "#x", "1!", "0!", "b1010 \"", "bx \"", "b1 !", "r1.5 !", "1?",
     "$dumpvars", "$end"}

DataState ==
    [currentTime |-> currentTime, endTime |-> endTime, transitions |-> transitions,
     lastValues |-> lastValues, signalsWithTransitions |-> signalsWithTransitions,
     skipToEnd |-> skipToEnd]

ParseInit ==
    /\ lines \in SampleHeaders
    /\ i = 0
    /\ signalDefs = EmptyMap
    /\ scopeStack = << >>
    /\ timescale = "1 ns"
    /\ currentTime = 0
    /\ endTime = 0
    /\ transitions = << >>
    /\ lastValues = EmptyMap
    /\ signalsWithTransitions = << >>
    /\ skipToEnd = FALSE
    /\ pc = "header"
    /\ raw = ""
    /\ drawn = 0
    /\ declared = << >>
    /\ unwrapped = [currentTime |-> 0, endTime |-> 0, transitions |-> << >>,
                    lastValues |-> EmptyMap, signalsWithTransitions |-> << >>,
                    skipToEnd |-> FALSE]
    /\ bracket = "out"

\* the statements a header is made of here: scopes opened on one line and
\* over two, a scope closed, variables with a range in the name, after the
\* name, and without one
ScopeStatements ==
    { <<"$scope module top $end">>, <<"$scope module", "u1 $end">>, <<"$upscope $end">>,
      <<"$var wire 1 ! clk $end">>, <<"$var wire 4 \" data[3:0] $end">>,
      <<"$var reg 8 # mem [7:0] $end">> }

RECURSIVE Flatten(_)
Flatten(groups) == IF groups = << >> THEN << >> ELSE Head(groups) \o Flatten(Tail(groups))

\* a dump: a timescale, a blank line, a comment, MaxStatements statements,
\* the end of the header and two data lines
ScopeHeaders ==
    { <<"$timescale 1ps $end", "", "$comment made here $end">> \o Flatten(stmts)
          \o <<"$enddefinitions $end", "#0", "1!">> :
      stmts \in [1..MaxStatements -> ScopeStatements] }

\* parseVcd on the dumps of ScopeHeaders, no line following them
HeaderInit ==
    /\ lines \in ScopeHeaders
    /\ i = 0
    /\ signalDefs = EmptyMap
    /\ scopeStack = << >>
    /\ timescale = "1 ns"
    /\ currentTime = 0
    /\ endTime = 0
    /\ transitions = << >>
    /\ lastValues = EmptyMap
    /\ signalsWithTransitions = << >>
    /\ skipToEnd = FALSE
    /\ pc = "header"
    /\ raw = ""
    /\ drawn = MaxDataLines
    /\ declared = << >>
    /\ unwrapped = [currentTime |-> 0, endTime |-> 0, transitions |-> << >>,
                    lastValues |-> EmptyMap, signalsWithTransitions |-> << >>,
                    skipToEnd |-> FALSE]
    /\ bracket = "out"

\* what the header loop leaves alone
DataUnchanged ==
    UNCHANGED <<lines, currentTime, endTime, transitions, lastValues,
                signalsWithTransitions, skipToEnd, drawn, unwrapped, bracket,
                fmtVars, queryVars, samplerVars, windowVars, adapterVars, serverVars, panelVars, hostVars>>

\* "const raw = lines[i++]; const line = raw.trim();" of the header loop
HeaderReads(line) == pc = "header" /\ i < Len(lines) /\ line = Trim(lines[i + 1])

HeaderBlank ==
    /\ HeaderReads("")
    /\ raw' = lines[i + 1]
    /\ i' = i + 1
    /\ UNCHANGED <<signalDefs, scopeStack, timescale, pc, declared>>
    /\ DataUnchanged

HeaderTimescale ==
    \E line \in {Trim(lines[k]) : k \in 1..Len(lines)} :
        LET body == collectUntilEnd(Trim(SliceFrom(line, Len("$timescale"))), lines, i + 1)
        IN  /\ HeaderReads(line)
            /\ StartsWith(line, "$timescale")
            /\ raw' = lines[i + 1]
            /\ i' = body.i
            /\ timescale' = IF Trim(body.text) # "" THEN Trim(body.text) ELSE timescale
            /\ UNCHANGED <<signalDefs, scopeStack, pc, declared>>
            /\ DataUnchanged

HeaderScope ==
    \E line \in {Trim(lines[k]) : k \in 1..Len(lines)} :
        LET full == collectUntilEnd(line, lines, i + 1)
            m    == MatchScope(full.text)
        IN  /\ HeaderReads(line)
            /\ StartsWith(line, "$scope")
            /\ raw' = lines[i + 1]
            /\ i' = full.i
            /\ scopeStack' = IF m.matched THEN Append(scopeStack, m.name) ELSE scopeStack
            /\ UNCHANGED <<signalDefs, timescale, pc, declared>>
            /\ DataUnchanged

HeaderUpscope ==
    \E line \in {Trim(lines[k]) : k \in 1..Len(lines)} :
        /\ HeaderReads(line)
        /\ StartsWith(line, "$upscope")
        /\ raw' = lines[i + 1]
        /\ i' = i + 1
        /\ scopeStack' = Pop(scopeStack)
        /\ UNCHANGED <<signalDefs, timescale, pc, declared>>
        /\ DataUnchanged

HeaderVar ==
    \E line \in {Trim(lines[k]) : k \in 1..Len(lines)} :
        LET full == collectUntilEnd(line, lines, i + 1)
            m    == MatchVar(full.text)
        IN  /\ HeaderReads(line)
            /\ StartsWith(line, "$var")
            /\ raw' = lines[i + 1]
            /\ i' = full.i
            /\ signalDefs' = DeclareVar(signalDefs, scopeStack, full.text)
            /\ declared' = IF m.matched
                           THEN Append(declared, [id |-> m.id,
                                                  path |-> JoinDot(Append(scopeStack, StripRange(m.name))),
                                                  width |-> ParseInt(m.width)])
                           ELSE declared
            /\ UNCHANGED <<scopeStack, timescale, pc>>
            /\ DataUnchanged

HeaderEndDefinitions ==
    \E line \in {Trim(lines[k]) : k \in 1..Len(lines)} :
        /\ HeaderReads(line)
        /\ StartsWith(line, "$enddefinitions")
        /\ raw' = lines[i + 1]
        /\ i' = IF ~Includes(line, "$end") THEN SkipToEndLine(lines, i + 1) ELSE i + 1
        /\ pc' = "data"
        /\ UNCHANGED <<signalDefs, scopeStack, timescale, declared>>
        /\ DataUnchanged

IsHeaderKeyword(line) ==
    \/ StartsWith(line, "$timescale") \/ StartsWith(line, "$scope")
    \/ StartsWith(line, "$upscope")   \/ StartsWith(line, "$var")
    \/ StartsWith(line, "$enddefinitions")

\* any other line: a $block without "$end" is skipped to its "$end"
HeaderOther ==
    \E line \in {Trim(lines[k]) : k \in 1..Len(lines)} :
        /\ HeaderReads(line)
        /\ line # ""
        /\ ~IsHeaderKeyword(line)
        /\ raw' = lines[i + 1]
        /\ i' = IF StartsWith(line, "$") /\ ~Includes(line, "$end")
                THEN SkipToEndLine(lines, i + 1) ELSE i + 1
        /\ UNCHANGED <<signalDefs, scopeStack, timescale, pc, declared>>
        /\ DataUnchanged

IsWrapperOpen(line) == line \in {"$dumpvars", "$dumpall", "$dumpon", "$dumpoff"}

IsWrapperClose(line) == line = "$end"

\* one iteration of the data loop on the line rawLine
DataRead(rawLine) ==
    LET st   == DataStep(DataState, signalDefs, rawLine)
        line == Trim(rawLine)
    IN  /\ raw' = rawLine
        /\ i' = i + 1
        /\ currentTime' = st.currentTime
        /\ endTime' = st.endTime
        /\ transitions' = st.transitions
        /\ lastValues' = st.lastValues
        /\ signalsWithTransitions' = st.signalsWithTransitions
        /\ skipToEnd' = st.skipToEnd
        /\ unwrapped' = IF IsWrapperOpen(line) \/ IsWrapperClose(line) THEN unwrapped
                        ELSE DataStep(unwrapped, signalDefs, rawLine)
        /\ bracket' = IF bracket = "out" /\ IsWrapperOpen(line) THEN "in"
                      ELSE IF bracket = "in" /\ IsWrapperClose(line) THEN "out"
                      ELSE IF IsWrapperOpen(line) \/ IsWrapperClose(line) THEN "bad"
                      ELSE bracket
        /\ UNCHANGED <<lines, signalDefs, scopeStack, timescale, pc, declared>>

DataLine ==
    /\ pc = "data"
    /\ IF i < Len(lines)
       THEN DataRead(lines[i + 1]) /\ drawn' = drawn
       ELSE /\ drawn < MaxDataLines
            /\ drawn' = drawn + 1
            /\ \E rawLine \in DataVocab : DataRead(rawLine)
    /\ UNCHANGED <<fmtVars, queryVars, samplerVars, windowVars, adapterVars, serverVars, panelVars, hostVars>>

\* i >= total: both loops are over and parseVcd returns
\* { signals: Array.from(signalsWithTransitions), transitions, endTime, timescale }
Return ==
    /\ pc \in {"header", "data"}
    /\ i >= Len(lines)
    /\ pc' = "done"
    /\ UNCHANGED <<lines, i, signalDefs, scopeStack, timescale, currentTime, endTime,
                   transitions, lastValues, signalsWithTransitions, skipToEnd, raw,
                   drawn, declared, unwrapped, bracket, fmtVars, queryVars,
                   samplerVars, windowVars, adapterVars, serverVars, panelVars, hostVars>>

ParseNext ==
    \/ HeaderBlank \/ HeaderTimescale \/ HeaderScope \/ HeaderUpscope \/ HeaderVar
    \/ HeaderEndDefinitions \/ HeaderOther \/ DataLine \/ Return

\* no parse is running
ParseIdle ==
    /\ lines = << >>
    /\ i = 0
    /\ signalDefs = EmptyMap
    /\ scopeStack = << >>
    /\ timescale = "1 ns"
    /\ currentTime = 0
    /\ endTime = 0
    /\ transitions = << >>
    /\ lastValues = EmptyMap
    /\ signalsWithTransitions = << >>
    /\ skipToEnd = FALSE
    /\ pc = "idle"
    /\ raw = ""
    /\ drawn = 0
    /\ declared = << >>
    /\ unwrapped = [currentTime |-> 0, endTime |-> 0, transitions |-> << >>,
                    lastValues |-> EmptyMap, signalsWithTransitions |-> << >>,
                    skipToEnd |-> FALSE]
    /\ bracket = "out"

\* ------------------------------------------------------------------------
\* formatBits as a function of its two arguments
\* ------------------------------------------------------------------------
\* binary strings of k digits: all ones, and a one at each end
LongBits == UNION {{Repeat["1", k], "1" \o Repeat["0", k - 2] \o "1"} : k \in 50..MaxBitsLen}

BitsInputs ==
    {"", "0", "1", "x", "z", "X", "10", "1010", "1x", "z1", "x0", "0z", "11111", "12"}
      \cup LongBits

WidthInputs == {0, 1, 2, 4, 8} \cup (50..MaxBitsLen)

FmtInit ==
    /\ fBits \in BitsInputs
    /\ fWidth \in WidthInputs
    /\ fOut = ""
    /\ fDone = FALSE

FmtIdle ==
    /\ fBits = ""
    /\ fWidth = 0
    /\ fOut = ""
    /\ fDone = FALSE

FormatBitsCall ==
    /\ ~fDone
    /\ fOut' = formatBits(fBits, fWidth)
    /\ fDone' = TRUE
    /\ UNCHANGED <<fBits, fWidth, parseVars, queryVars, samplerVars, windowVars, adapterVars, serverVars, panelVars, hostVars>>

\* ------------------------------------------------------------------------
\* WaveformIndex: the index built by the constructor, and its queries
\* ------------------------------------------------------------------------
\* what an out-of-range array index yields
Undefined == [time |-> NaN, signal |-> "undefined", value |-> "undefined"]

\* a filter that leaves out the transitions at tStart
FilterOpenStart(ts, tStart, tEnd) ==
    SelectSeq(ts, LAMBDA t : JsGt(t.time, tStart) /\ JsLe(t.time, tEnd))

\* ts.filter(t => t.time >= tStart && t.time <= tEnd)
Filter(ts, tStart, tEnd) ==
    SelectSeq(ts, LAMBDA t : JsGe(t.time, tStart) /\ JsLe(t.time, tEnd))

\* a re-sampling that keeps the first cap entries
ResamplePrefix(filtered, cap) == SubSeq(filtered, 1, cap)

\* Array.from({ length: cap }, (_, i) => filtered[Math.round(i * step)])
Resample(filtered, cap) ==
    [k \in 1..cap |->
        LET idx == StrideIndex[k - 1, Len(filtered), cap]
        IN  IF idx < Len(filtered) THEN filtered[idx + 1] ELSE Undefined]

\* a lookup that falls back to the first bucket of the index
BucketOrFirst(index, signal) ==
    IF MapHas(index, signal) THEN index[signal]
    ELSE IF DOMAIN index = {} THEN << >>
    ELSE index[CHOOSE sig \in DOMAIN index : TRUE]

\* this.bySignal.get(signal) ?? []
Bucket(index, signal) == IF MapHas(index, signal) THEN index[signal] ELSE << >>

\* "while (lo <= hi) { const mid = (lo + hi) >> 1; ... }" from lo, hi, result
RECURSIVE Search(_, _, _, _, _)
Search(ts, time, lo, hi, result) ==
    IF lo > hi THEN result
    ELSE LET mid == (lo + hi) \div 2
         IN  IF JsLe(ts[mid + 1].time, time)
             THEN Search(ts, time, mid + 1, hi, ts[mid + 1].value)
             ELSE Search(ts, time, lo, mid - 1, result)

\* a lookup that answers the value held just before the time asked
getValueAtBefore(index, signal, time) ==
    LET ts == Bucket(index, signal)
    IN  Search(ts, IF IsNaN(time) THEN time ELSE time - 1, 0, Len(ts) - 1, "x")

\* getValueAt(signal, time): binary search for the last transition at or
\* before time
getValueAt(index, signal, time) ==
    LET ts == Bucket(index, signal)
    IN  Search(ts, time, 0, Len(ts) - 1, "x")

\* this.signals.map(name => ({ name, transitionCount: ... }))
listSignals(signals, index) ==
    [k \in 1..Len(signals) |->
        [name |-> signals[k],
         transitionCount |-> IF MapHas(index, signals[k]) THEN Len(index[signals[k]]) ELSE 0]]

\* an index whose bucket loses its first transition when it is read
IndexAfterShift(index, signal) ==
    IF MapHas(index, signal) /\ Len(index[signal]) > 0
    THEN [index EXCEPT ![signal] = Tail(index[signal])]
    ELSE index

\* the index after a method has read the bucket of a signal: map, filter and
\* Array.from build new arrays and the binary search only reads, and a signal
\* that is not indexed gets "?? []", not a new bucket
IndexAfter(index, signal) == index

queryTransitions(index, signal, tStart, tEnd, cap) ==
    LET ts       == IF MapHas(index, signal) THEN index[signal] ELSE << >>
        filtered == Filter(ts, tStart, tEnd)
    IN  IF Len(filtered) <= cap THEN filtered ELSE Resample(filtered, cap)

\* the logs indexed: n transitions of one signal at times 0..n-1, of two
\* signals in turn, of one signal with two transitions per tick, and of
\* one signal with falling times (a log that is not in time order)
LogShapes == {"one", "two", "pairs", "falling"}

MakeLog(shape, n) ==
    [k \in 1..n |->
        [time   |-> CASE shape = "pairs" -> (k - 1) \div 2
                      [] shape = "falling" -> n - k
                      [] OTHER -> k - 1,
         signal |-> IF shape = "two" /\ k % 2 = 0 THEN "b" ELSE "a",
         value  |-> IF k % 2 = 1 THEN "1" ELSE "0"]]

SignalInputs == {"a", "b", "nosuch"}

WindowInputs == {<<0, MaxN>>, <<1, 3>>, <<2, MaxN - 2>>, <<3, 1>>}

QueryInit ==
    /\ \E shape \in LogShapes, n \in 0..MaxN : qLog = MakeLog(shape, n)
    /\ qSignals = <<"a", "b">>
    /\ bySignal = BySignal(qLog)
    /\ qCall = [op |-> "none", signal |-> "", tStart |-> 0, tEnd |-> 0, cap |-> 0, time |-> 0]
    /\ qResult = << >>
    /\ qValue = ""
    /\ qList = << >>
    /\ qRepeated = FALSE

QueryIdle ==
    /\ qLog = << >>
    /\ qSignals = << >>
    /\ bySignal = EmptyMap
    /\ qCall = [op |-> "none", signal |-> "", tStart |-> 0, tEnd |-> 0, cap |-> 0, time |-> 0]
    /\ qResult = << >>
    /\ qValue = ""
    /\ qList = << >>
    /\ qRepeated = FALSE

\* one call on the index; no call writes the index, so a later call would
\* start from the same index
QueryTransitionsCall ==
    \E signal \in SignalInputs, w \in WindowInputs, cap \in 0..MaxCap :
        /\ qCall.op = "none"
        /\ qCall' = [op |-> "queryTransitions", signal |-> signal,
                     tStart |-> w[1], tEnd |-> w[2], cap |-> cap, time |-> 0]
        /\ qResult' = queryTransitions(bySignal, signal, w[1], w[2], cap)
        /\ bySignal' = IndexAfter(bySignal, signal)
        /\ UNCHANGED <<qLog, qSignals, qValue, qList, qRepeated, parseVars, fmtVars, samplerVars, windowVars, adapterVars, serverVars, panelVars, hostVars>>

\* the times asked of getValueAt: before, inside and after every log, and NaN
TimeInputs == (-1..(MaxN + 1)) \cup {NaN}

GetValueAtCall ==
    \E signal \in SignalInputs, time \in TimeInputs :
        /\ qCall.op = "none"
        /\ qCall' = [op |-> "getValueAt", signal |-> signal,
                     tStart |-> 0, tEnd |-> 0, cap |-> 0, time |-> time]
        /\ qValue' = getValueAt(bySignal, signal, time)
        /\ bySignal' = IndexAfter(bySignal, signal)
        /\ UNCHANGED <<qLog, qSignals, qResult, qList, qRepeated, parseVars, fmtVars, samplerVars, windowVars, adapterVars, serverVars, panelVars, hostVars>>

ListSignalsCall ==
    /\ qCall.op = "none"
    /\ qCall' = [op |-> "listSignals", signal |-> "", tStart |-> 0, tEnd |-> 0,
                 cap |-> 0, time |-> 0]
    /\ qList' = listSignals(qSignals, bySignal)
    /\ UNCHANGED <<qLog, qSignals, bySignal, qResult, qValue, qRepeated>>
    /\ UNCHANGED <<parseVars, fmtVars, samplerVars, windowVars, adapterVars, serverVars, panelVars, hostVars>>

\* the call made is made again with the same arguments
RepeatCall ==
    /\ qCall.op # "none"
    /\ ~qRepeated
    /\ qRepeated' = TRUE
    /\ qResult' = IF qCall.op = "queryTransitions"
                  THEN queryTransitions(bySignal, qCall.signal, qCall.tStart, qCall.tEnd,
                                        qCall.cap)
                  ELSE qResult
    /\ qValue' = IF qCall.op = "getValueAt"
                 THEN getValueAt(bySignal, qCall.signal, qCall.time) ELSE qValue
    /\ qList' = IF qCall.op = "listSignals" THEN listSignals(qSignals, bySignal) ELSE qList
    /\ bySignal' = IF qCall.op = "listSignals" THEN bySignal
                   ELSE IndexAfter(bySignal, qCall.signal)
    /\ UNCHANGED <<qLog, qSignals, qCall>>
    /\ UNCHANGED <<parseVars, fmtVars, samplerVars, windowVars, adapterVars, serverVars, panelVars, hostVars>>

QueryNext == QueryTransitionsCall \/ GetValueAtCall \/ ListSignalsCall \/ RepeatCall

\* ------------------------------------------------------------------------
\* collectTransitions (vaporview/api.ts): the live sampler
\* ------------------------------------------------------------------------
MAX_SAMPLE_ITERATIONS == 2000

\* Math.ceil(a / b) for a >= 0 and b > 0
CeilDiv(a, b) == (a + b - 1) \div b

\* "range > 0 && Math.ceil(range / stepSize) > MAX_SAMPLE_ITERATIONS": a
\* division by 0 gives Infinity, by a negative step a quotient below 0
StepIsCapped(range, stepSize) ==
    /\ range > 0
    /\ \/ stepSize = 0
       \/ stepSize > 0 /\ CeilDiv(range, stepSize) > MAX_SAMPLE_ITERATIONS

effectiveStep(tFrom, tTo, stepSize) ==
    LET range == tTo - tFrom
    IN  IF StepIsCapped(range, stepSize)
        THEN CeilDiv(range, MAX_SAMPLE_ITERATIONS)
        ELSE stepSize

\* the parts of a text between commas
RECURSIVE SplitComma(_)
SplitComma(s) ==
    LET at == IndexOf(s, ",")
    IN  IF at < 0 THEN <<s>>
        ELSE <<Slice(s, 0, at)>> \o SplitComma(SliceFrom(s, at + 1))

IsQuoted(s) == Len(s) >= 2 /\ CharAt(s, 1) = "\"" /\ CharAt(s, Len(s)) = "\""
                  /\ ~Includes(Slice(s, 1, Len(s) - 1), "\"")

IsJsonNumber(s) == Len(s) >= 1 /\ AllIn(s, Digits) /\ (Len(s) = 1 \/ CharAt(s, 1) # "0")

IsJsonScalar(s) == IsQuoted(s) \/ IsJsonNumber(s)

\* String(v) of a JSON string or a JSON integer
ScalarString(s) == IF IsQuoted(s) THEN Slice(s, 1, Len(s) - 1) ELSE s

\* JSON.parse on the encodings a viewer sends: an array of strings or
\* integers, a string, an integer; anything else throws
JsonParse(text) ==
    LET t     == Trim(text)
        inner == Trim(Slice(t, 1, Len(t) - 1))
        parts == IF inner = "" THEN << >> ELSE SplitComma(inner)
    IN  IF Len(t) >= 2 /\ CharAt(t, 1) = "[" /\ CharAt(t, Len(t)) = "]"
        THEN IF \A k \in 1..Len(parts) : IsJsonScalar(Trim(parts[k]))
             THEN [ok |-> TRUE, isArray |-> TRUE,
                   elems |-> [k \in 1..Len(parts) |-> ScalarString(Trim(parts[k]))],
                   scalar |-> ""]
             ELSE [ok |-> FALSE, isArray |-> FALSE, elems |-> << >>, scalar |-> ""]
        ELSE IF IsJsonScalar(t)
        THEN [ok |-> TRUE, isArray |-> FALSE, elems |-> << >>, scalar |-> ScalarString(t)]
        ELSE [ok |-> FALSE, isArray |-> FALSE, elems |-> << >>, scalar |-> ""]

\* "try { const parsed = JSON.parse(entry.value);
\*        bits = Array.isArray(parsed) ? String(parsed[0]) : String(parsed); }
\*  catch { bits = entry.value; }"
BitsOf(value) ==
    LET parsed == JsonParse(value)
    IN  IF ~parsed.ok THEN value
        ELSE IF parsed.isArray
        THEN (IF Len(parsed.elems) = 0 THEN "undefined" ELSE parsed.elems[1])
        ELSE parsed.scalar

\* "/^[01]+$/.test(bits) && bits.length > 1 ? `${bits} (0x${hex})` : bits"
StrValue(bits) ==
    IF Len(bits) > 1 /\ AllIn(bits, {"0", "1"})
    THEN bits \o " (0x" \o ToStringHexUpper(ParseIntBase2(bits)) \o ")"
    ELSE bits

\* one entry of a response, and the two kinds of response: an array of
\* entries, or something that is not an array (null, undefined)
Entry(path, value) == [instancePath |-> path, value |-> value]

ArrayOf(entries) == [isArray |-> TRUE, entries |-> entries]

NotAnArray == [isArray |-> FALSE, entries |-> << >>]

\* what the viewer may answer to getValuesAtTime while it has data
ResponseVocab ==
    { NotAnArray,
      ArrayOf(<< >>),
      ArrayOf(<<Entry("clk", "[\"0\"]")>>),
      ArrayOf(<<Entry("clk", "[\"1\"]")>>),
      ArrayOf(<<Entry("clk", "[\"0\",\"1\"]")>>),
      ArrayOf(<<Entry("clk", "[\"1\"]"), Entry("d", "[\"10\"]")>>) }

\* the body of "for (const entry of raw)" on the run state st = [log, last]
ProcessEntry(st, time, entry) ==
    LET signal   == entry.instancePath
        strValue == StrValue(BitsOf(entry.value))
    IN  IF ~MapHas(st.last, signal) \/ st.last[signal] # strValue
        THEN [log  |-> Append(st.log, [time |-> time, signal |-> signal, value |-> strValue]),
              last |-> MapSet(st.last, signal, strValue)]
        ELSE st

\* "for (const entry of raw) { ... }"
RECURSIVE ProcessEntries(_, _, _)
ProcessEntries(st, time, entries) ==
    IF Len(entries) = 0 THEN st
    ELSE ProcessEntries(ProcessEntry(st, time, Head(entries)), time, Tail(entries))

\* "if (!raw || !Array.isArray(raw)) { continue; }" and the loop over raw
ProcessResponse(st, time, response) ==
    IF ~response.isArray THEN st ELSE ProcessEntries(st, time, response.entries)

\* the runs made: <<startTime, endTime, stepSize>>
RunInputs ==
    { <<0, 3, 1>>, <<0, 4, 2>>, <<2, 2, 1>>, <<3, 0, 1>>, <<0, 3, 0>>, <<0, 0, 0>>,
      <<0, 3, -1>>,
      <<0, MAX_SAMPLE_ITERATIONS, 1>>, <<0, 3 * MAX_SAMPLE_ITERATIONS, 2>> }

PollCountMax == MAX_SAMPLE_ITERATIONS + 2

\* the entry of collectTransitions up to the first test of the loop condition
ExitsIdle ==
    /\ eEmpty = 0
    /\ eSame = 0
    /\ eInformative = FALSE
    /\ eCancel = FALSE

SamplerStart(run, free) ==
    /\ sStart = run[1]
    /\ sEnd = run[2]
    /\ sStep = run[3]
    /\ sEff = effectiveStep(run[1], run[2], run[3])
    /\ sTime = run[1]
    /\ sLog = << >>
    /\ sLast = EmptyMap
    /\ sPc = "loop"
    /\ sRaw = NotAnArray
    /\ sPolls = 0
    /\ sFree = free
    /\ sOdd = FALSE
    /\ ExitsIdle

SamplerInit == \E run \in RunInputs : SamplerStart(run, MaxFreePolls)

\* no run is made
SamplerIdle ==
    /\ sStart = 0
    /\ sEnd = 0
    /\ sStep = 0
    /\ sEff = 0
    /\ sTime = 0
    /\ sLog = << >>
    /\ sLast = EmptyMap
    /\ sPc = "idle"
    /\ sRaw = NotAnArray
    /\ sPolls = 0
    /\ sFree = 0
    /\ sOdd = FALSE
    /\ ExitsIdle

\* "time += effectiveStep"; the times more than MaxBelow under startTime
\* are kept as one, the loop condition being the same for all of them
NextTime(time, step, tFrom) ==
    IF time + step < tFrom - MaxBelow THEN tFrom - MaxBelow ELSE time + step

\* a fully empty response: no array, or an array without entries
IsEmptyResponse(response) == ~response.isArray \/ Len(response.entries) = 0

\* a value reported as a [previous, current] pair: a confirmed edge
IsPair(value) == JsonParse(value).ok /\ JsonParse(value).isArray
                    /\ Len(JsonParse(value).elems) >= 2

HasEdge(response) ==
    /\ response.isArray
    /\ \E k \in 1..Len(response.entries) : IsPair(response.entries[k].value)

\* a counter of consecutive polls, kept within the number of polls counted
Streak(n) == IF n < PollCountMax THEN n + 1 ELSE n

\* one iteration of the loop: the poll, the processing of its response, and
\* the step of time.  The viewer answers sFree polls as it likes and has no
\* data after them.  eEmpty counts the fully empty responses in a row, eSame
\* the responses in a row that have data, change no value and report no edge.
Poll ==
    /\ sPc = "loop"
    /\ sTime <= sEnd
    /\ \E response \in (IF sFree > 0 THEN ResponseVocab ELSE {NotAnArray}) :
          LET st == ProcessResponse([log |-> sLog, last |-> sLast], sTime, response)
          IN  /\ sRaw' = response
              /\ sLog' = st.log
              /\ sLast' = st.last
              /\ eEmpty' = IF IsEmptyResponse(response) THEN Streak(eEmpty) ELSE 0
              /\ eSame' = IF IsEmptyResponse(response) \/ st.log # sLog \/ HasEdge(response)
                          THEN 0 ELSE Streak(eSame)
              /\ eInformative' = (eInformative \/ ~IsEmptyResponse(response))
    /\ sFree' = IF sFree > 0 THEN sFree - 1 ELSE sFree
    /\ sPolls' = IF sPolls < PollCountMax THEN sPolls + 1 ELSE sPolls
    /\ sOdd' = ~sOdd
    /\ sTime' = NextTime(sTime, sEff, sStart)
    /\ UNCHANGED <<sStart, sEnd, sStep, sEff, sPc, eCancel>>
    /\ UNCHANGED <<parseVars, fmtVars, queryVars, windowVars, adapterVars, serverVars, panelVars, hostVars>>

\* the loop condition fails: "return transitions"
SamplerReturn ==
    /\ sPc = "loop"
    /\ ~(sTime <= sEnd)
    /\ sPc' = "done"
    /\ UNCHANGED <<sStart, sEnd, sStep, sEff, sTime, sLog, sLast, sRaw, sPolls, sFree, sOdd,
                   exitVars>>
    /\ UNCHANGED <<parseVars, fmtVars, queryVars, windowVars, adapterVars, serverVars, panelVars, hostVars>>

SamplerNext == Poll \/ SamplerReturn

\* ------------------------------------------------------------------------
\* Short runs in which the viewer answers every poll as it likes and the
\* user may press Stop (chat/panel.ts aborts the controller whose signal it
\* hands to buildWaveformContext).
\* ------------------------------------------------------------------------
ExitRunInputs == { <<0, MaxExitEnd, 1>>, <<1, MaxExitEnd, 2>> }

ExitInit == \E run \in ExitRunInputs : SamplerStart(run, MaxExitEnd + 1)

\* the user stops the collection: "this.currentAbortController?.abort()"
RequestCancel ==
    /\ sPc = "loop"
    /\ ~eCancel
    /\ eCancel' = TRUE
    /\ UNCHANGED <<sStart, sEnd, sStep, sEff, sTime, sLog, sLast, sPc, sRaw, sPolls, sFree,
                   sOdd, eEmpty, eSame, eInformative>>
    /\ UNCHANGED <<parseVars, fmtVars, queryVars, windowVars, adapterVars, serverVars, panelVars, hostVars>>

ExitsNext == Poll \/ SamplerReturn \/ RequestCancel

\* ------------------------------------------------------------------------
\* buildWaveformContext: the window resolved from the viewer's markers, the
\* reported end of the simulation and the range asked for
\* (src/hdl-wave-ai/src/vaporview/api.ts)
\* ------------------------------------------------------------------------
\* a value that is null or undefined, and a number
None == [set |-> FALSE, v |-> 0]

Some(x) == [set |-> TRUE, v |-> x]

\* a ?? b
Coalesce(a, b) == IF a.set THEN a ELSE b

MathMin(a, b) == IF a <= b THEN a ELSE b

MathMax(a, b) == IF a >= b THEN a ELSE b

\* "state?.timeEnd ?? state?.maxTime ?? state?.totalTime ?? null"
vcdEnd(state) == Coalesce(state.timeEnd, Coalesce(state.maxTime, state.totalTime))

\* "state?.markerTime != null || state?.altMarkerTime != null"
markersSet(state) == state.markerTime.set \/ state.altMarkerTime.set

\* "state?.altMarkerTime ?? state?.markerTime ?? startTime"
t0(state, tFrom) == Coalesce(state.altMarkerTime, Coalesce(state.markerTime, Some(tFrom))).v

\* "state?.markerTime ?? (markersSet ? endTime : (vcdEnd ?? endTime))"
t1(state, tTo) ==
    Coalesce(state.markerTime,
             IF markersSet(state) THEN Some(tTo) ELSE Coalesce(vcdEnd(state), Some(tTo))).v

resolvedStart(state, tFrom, tTo) == MathMin(t0(state, tFrom), t1(state, tTo))

resolvedEnd(state, tFrom, tTo) == MathMax(t0(state, tFrom), t1(state, tTo))

\* a window that is t0 and t1 as they come, without Math.min and Math.max
resolvedWindowUnordered(state, tFrom, tTo) == <<t0(state, tFrom), t1(state, tTo)>>

\* the pair handed to collectTransitions and stored in the context
resolvedWindow(state, tFrom, tTo) ==
    <<resolvedStart(state, tFrom, tTo), resolvedEnd(state, tFrom, tTo)>>

\* the viewer states: no state at all (every "state?.x" is undefined), or
\* each marker and each end-time field null or a time
NoViewerState ==
    [defined |-> FALSE, markerTime |-> None, altMarkerTime |-> None,
     timeEnd |-> None, maxTime |-> None, totalTime |-> None]

MarkerTimes == {None, Some(2), Some(3), Some(5)}

ViewerStates ==
    {NoViewerState} \cup
    [defined : {TRUE}, markerTime : MarkerTimes, altMarkerTime : MarkerTimes,
     timeEnd : {None, Some(4)}, maxTime : {None, Some(6)}, totalTime : {None, Some(7)}]

\* the arguments ChatPanel.handleMessage passes: the range of the message or
\* its defaults, and the configured step
WindowArgs ==
    { [startTime |-> 0, endTime |-> MaxWindowEnd, stepSize |-> 1],
      [startTime |-> 1, endTime |-> MaxWindowEnd - 1, stepSize |-> 2],
      [startTime |-> MaxWindowEnd - 2, endTime |-> 3, stepSize |-> 1] }

NullCtx == [isNull |-> TRUE, startTime |-> 0, endTime |-> 0, transitions |-> << >>]

WindowInit ==
    /\ wHasUri \in BOOLEAN
    /\ wSignals \in {0, 1}
    /\ wState \in ViewerStates
    /\ wArgs \in WindowArgs
    /\ wPc = "start"
    /\ wStart = 0
    /\ wEnd = 0
    /\ wCtx = NullCtx

\* no call is made
WindowIdle ==
    /\ wHasUri = FALSE
    /\ wSignals = 0
    /\ wState = NoViewerState
    /\ wArgs = [startTime |-> 0, endTime |-> 0, stepSize |-> 1]
    /\ wPc = "idle"
    /\ wStart = 0
    /\ wEnd = 0
    /\ wCtx = NullCtx

\* buildWaveformContext up to its call of collectTransitions: null without a
\* document or without signals, else the window is resolved and handed to
\* collectTransitions with the step
BuildWaveformContext ==
    /\ wPc = "start"
    /\ IF ~wHasUri \/ wSignals = 0
       THEN /\ wPc' = "done"
            /\ wCtx' = NullCtx
            /\ UNCHANGED <<wStart, wEnd, samplerVars>>
       ELSE LET from == resolvedWindow(wState, wArgs.startTime, wArgs.endTime)[1]
                to   == resolvedWindow(wState, wArgs.startTime, wArgs.endTime)[2]
            IN  /\ wStart' = from
                /\ wEnd' = to
                /\ wPc' = "collect"
                /\ sStart' = from
                /\ sEnd' = to
                /\ sStep' = wArgs.stepSize
                /\ sEff' = effectiveStep(from, to, wArgs.stepSize)
                /\ sTime' = from
                /\ sLog' = << >>
                /\ sLast' = EmptyMap
                /\ sPc' = "loop"
                /\ sRaw' = NotAnArray
                /\ sPolls' = 0
                /\ sFree' = MaxFreePolls
                /\ sOdd' = FALSE
                /\ UNCHANGED <<exitVars, wCtx>>
    /\ UNCHANGED <<wHasUri, wSignals, wState, wArgs>>
    /\ UNCHANGED <<parseVars, fmtVars, queryVars, adapterVars, serverVars, panelVars, hostVars>>

\* "return { uri, signals, transitions, startTime: resolvedStart, endTime: resolvedEnd }"
ContextReturn ==
    /\ wPc = "collect"
    /\ sPc = "done"
    /\ wCtx' = [isNull |-> FALSE, startTime |-> wStart, endTime |-> wEnd,
                transitions |-> sLog]
    /\ wPc' = "done"
    /\ UNCHANGED <<wHasUri, wSignals, wState, wArgs, wStart, wEnd>>
    /\ UNCHANGED <<parseVars, fmtVars, queryVars, samplerVars, adapterVars, serverVars, panelVars, hostVars>>

WindowNext == BuildWaveformContext \/ Poll \/ SamplerReturn \/ ContextReturn

\* ------------------------------------------------------------------------
\* fstToVcdText and parseWaveformFile (src/waveform/fst.ts)
\* ------------------------------------------------------------------------
UpperLetters == "ABCDEFGHIJKLMNOPQRSTUVWXYZ"

LowerLetters == "abcdefghijklmnopqrstuvwxyz"

LowerChar(c) ==
    IF IndexOf(UpperLetters, c) >= 0 THEN CharAt(LowerLetters, IndexOf(UpperLetters, c) + 1)
    ELSE c

\* String.prototype.toLowerCase on the letters A-Z
RECURSIVE PathToLowerCase(_)
PathToLowerCase(s) ==
    IF s = "" THEN "" ELSE LowerChar(CharAt(s, 1)) \o PathToLowerCase(SliceFrom(s, 1))

NoMessage == [set |-> FALSE, v |-> ""]

Message(text) == [set |-> TRUE, v |-> text]

\* execFileAsync resolves with the converter's output
Resolves(stdout) == [ok |-> TRUE, stdout |-> stdout, code |-> "", message |-> NoMessage]

\* execFileAsync rejects: code is the errno name of a failed spawn, the exit
\* status of the converter, or the name of a Node error
Rejects(code, message) == [ok |-> FALSE, stdout |-> << >>, code |-> code, message |-> message]

\* the text is a list of lines; no line at all is the empty string
IsEmptyText(text) == text = << >>

InstallError ==
    "fst2vcd not found. Install GTKWave to enable FST support:\n  sudo apt install gtkwave"

NoOutputError == "fst2vcd produced no output - the file may be empty or corrupt"

\* a conversion that takes an exit status for a missing binary as well
fstToVcdTextAnyCode(exec) ==
    IF exec.ok /\ ~IsEmptyText(exec.stdout)
    THEN [kind |-> "text", text |-> exec.stdout, message |-> ""]
    ELSE IF ~exec.ok
         THEN [kind |-> "error", text |-> << >>, message |-> InstallError]
         ELSE [kind |-> "error", text |-> << >>,
               message |-> "fst2vcd failed: " \o NoOutputError]

\* fstToVcdText: the text, or the error thrown.  The "no output" error is
\* thrown inside the try block and caught by its catch clause: it has no code.
fstToVcdText(exec) ==
    LET e == IF exec.ok THEN [code |-> "", message |-> Message(NoOutputError)]
             ELSE [code |-> exec.code, message |-> exec.message]
    IN  IF exec.ok /\ ~IsEmptyText(exec.stdout)
        THEN [kind |-> "text", text |-> exec.stdout, message |-> ""]
        ELSE IF e.code = "ENOENT"
             THEN [kind |-> "error", text |-> << >>, message |-> InstallError]
             ELSE [kind |-> "error", text |-> << >>,
                   message |-> "fst2vcd failed: " \o
                               (IF e.message.set THEN e.message.v ELSE "[object Object]")]

\* what the converter may do: print a dump, print nothing, be absent, not be
\* executable, exit with a status, overflow the buffer
\* the dumps the converter prints: one with a scope, one with a blank line,
\* and nothing at all
ConverterTexts ==
    { h \in SampleHeaders :
        h = << >> \/ \E k \in 1..Len(h) : h[k] \in {"", "$upscope $end"} }

ExecOutcomes ==
    { Resolves(text) : text \in ConverterTexts } \cup
    { Rejects("ENOENT", Message("spawn fst2vcd ENOENT")),
      Rejects("EACCES", Message("spawn fst2vcd EACCES")),
      Rejects("1", Message("Command failed: fst2vcd w.fst")),
      Rejects("255", NoMessage),
      Rejects("ERR_CHILD_PROCESS_STDIO_MAXBUFFER", Message("stdout maxBuffer length exceeded")) }

ReadOutcomes ==
    { [ok |-> TRUE, text |-> <<"$var wire 1 ! clk $end", "$enddefinitions $end">>],
      [ok |-> FALSE, text |-> << >>] }

PathInputs == {"w.fst", "W.FST", "w.vcd", "w.txt"}

NoOut == [kind |-> "none", message |-> ""]

\* the converter is run for the .fst paths only, the file read for the others
AdapterInit ==
    /\ aPath \in PathInputs
    /\ aExec \in (IF EndsWith(PathToLowerCase(aPath), ".fst") THEN ExecOutcomes
                  ELSE {Rejects("ENOENT", NoMessage)})
    /\ aRead \in (IF EndsWith(PathToLowerCase(aPath), ".fst")
                  THEN {[ok |-> FALSE, text |-> << >>]} ELSE ReadOutcomes)
    /\ aPc = "call"
    /\ aOut = NoOut

\* no call is made
AdapterIdle ==
    /\ aPath = ""
    /\ aExec = Rejects("ENOENT", NoMessage)
    /\ aRead = [ok |-> FALSE, text |-> << >>]
    /\ aPc = "idle"
    /\ aOut = NoOut

\* parseVcd is entered with the text, which at most MaxAdapterLines data
\* lines follow
ParseStarts(text) ==
    /\ lines' = text
    /\ i' = 0
    /\ signalDefs' = EmptyMap
    /\ scopeStack' = << >>
    /\ timescale' = "1 ns"
    /\ currentTime' = 0
    /\ endTime' = 0
    /\ transitions' = << >>
    /\ lastValues' = EmptyMap
    /\ signalsWithTransitions' = << >>
    /\ skipToEnd' = FALSE
    /\ pc' = "header"
    /\ raw' = ""
    /\ drawn' = MaxDataLines - MaxAdapterLines
    /\ declared' = << >>
    /\ unwrapped' = [currentTime |-> 0, endTime |-> 0, transitions |-> << >>,
                     lastValues |-> EmptyMap, signalsWithTransitions |-> << >>,
                     skipToEnd |-> FALSE]
    /\ bracket' = "out"

\* parseWaveformFile up to its call of parseVcd, or to the error it throws
ParseWaveformFile ==
    /\ aPc = "call"
    /\ LET ext == PathToLowerCase(aPath)
       IN  IF EndsWith(ext, ".fst")
           THEN LET vcdText == fstToVcdText(aExec)
                IN  IF vcdText.kind = "text"
                    THEN aPc' = "parse" /\ aOut' = NoOut /\ ParseStarts(vcdText.text)
                    ELSE /\ aPc' = "done"
                         /\ aOut' = [kind |-> "error", message |-> vcdText.message]
                         /\ UNCHANGED parseVars
           ELSE IF EndsWith(ext, ".vcd")
           THEN IF aRead.ok
                THEN aPc' = "parse" /\ aOut' = NoOut /\ ParseStarts(aRead.text)
                ELSE /\ aPc' = "done"
                     /\ aOut' = [kind |-> "error", message |-> "readFileSync"]
                     /\ UNCHANGED parseVars
           ELSE /\ aPc' = "done"
                /\ aOut' = [kind |-> "error",
                            message |-> "Unsupported waveform format. Expected .fst or .vcd, got: "
                                        \o aPath]
                /\ UNCHANGED parseVars
    /\ UNCHANGED <<aPath, aExec, aRead>>
    /\ UNCHANGED <<fmtVars, queryVars, samplerVars, windowVars, serverVars, panelVars, hostVars>>

\* "return parseVcd(vcdText)"
ParseWaveformFileReturn ==
    /\ aPc = "parse"
    /\ pc = "done"
    /\ aPc' = "done"
    /\ aOut' = [kind |-> "result", message |-> ""]
    /\ UNCHANGED <<aPath, aExec, aRead>>
    /\ UNCHANGED <<parseVars, fmtVars, queryVars, samplerVars, windowVars, serverVars, panelVars, hostVars>>

AdapterNext == ParseWaveformFile \/ ParseNext \/ ParseWaveformFileReturn

\* ------------------------------------------------------------------------
\* The MCP server (src/mcp/server.ts): one index, replaced by load_waveform
\* and read by list_signals, query_transitions and get_value_at
\* ------------------------------------------------------------------------
TRANSITION_CAP == 150

\* the files of the machine: whether fs.existsSync finds the path, and what
\* parseWaveformFile gives for it (a parse result, or an error thrown)
ServerFiles ==
    [p \in {"a.vcd", "b.vcd", "gone.vcd", "bad.fst", "c.txt"} |->
        CASE p = "a.vcd" -> [exists |-> TRUE, ok |-> TRUE, signals |-> <<"a", "b">>,
                             transitions |-> MakeLog("two", 4), endTime |-> 3]
          [] p = "b.vcd" -> [exists |-> TRUE, ok |-> TRUE, signals |-> <<"a">>,
                             transitions |-> MakeLog("pairs", 3), endTime |-> 1]
          [] p = "gone.vcd" -> [exists |-> FALSE, ok |-> FALSE, signals |-> << >>,
                                transitions |-> << >>, endTime |-> 0]
          [] OTHER -> [exists |-> TRUE, ok |-> FALSE, signals |-> << >>,
                       transitions |-> << >>, endTime |-> 0]]

\* "let waveformIndex: WaveformIndex | null = null"
NoIndex == [loaded |-> FALSE, uri |-> "", signals |-> << >>, bySignal |-> EmptyMap,
            endTime |-> 0]

\* new WaveformIndex({ ...result, uri: file_path, startTime: 0 })
NewIndex(path) ==
    [loaded |-> TRUE, uri |-> path, signals |-> ServerFiles[path].signals,
     bySignal |-> BySignal(ServerFiles[path].transitions),
     endTime |-> ServerFiles[path].endTime]

\* a load that adds the buckets of the file to the index it finds
IndexAfterLoadMerged(old, path) ==
    IF ~old.loaded THEN NewIndex(path)
    ELSE [NewIndex(path) EXCEPT
            !.bySignal = [sig \in DOMAIN old.bySignal \cup DOMAIN NewIndex(path).bySignal |->
                            IF sig \in DOMAIN NewIndex(path).bySignal
                            THEN NewIndex(path).bySignal[sig] ELSE old.bySignal[sig]]]

\* "waveformIndex = new WaveformIndex(...)": the variable is given a new
\* instance, whatever it held
IndexAfterLoad(old, path) == NewIndex(path)

NoReply == [tool |-> "", kind |-> "none", uri |-> "", data |-> << >>]

ServerInit ==
    /\ mIndex = NoIndex
    /\ mLoading = {}
    /\ mReply = NoReply
    /\ mCalls = 0
    /\ mIssued = << >>

\* the server is not running
ServerIdle ==
    /\ mIndex = NoIndex
    /\ mLoading = {}
    /\ mReply = [tool |-> "", kind |-> "idle", uri |-> "", data |-> << >>]
    /\ mCalls = 0
    /\ mIssued = << >>

ServerRuns == mReply.kind # "idle" /\ mCalls < MaxServerCalls

\* load_waveform up to "await parseWaveformFile(file_path)", or its
\* "File not found" reply
LoadWaveformCall ==
    \E path \in DOMAIN ServerFiles :
        /\ ServerRuns
        /\ path \notin mLoading
        /\ mCalls' = mCalls + 1
        /\ IF ~ServerFiles[path].exists
           THEN /\ mReply' = [tool |-> "load_waveform", kind |-> "notfound", uri |-> path,
                              data |-> << >>]
                /\ UNCHANGED <<mLoading, mIssued>>
           ELSE /\ mLoading' = mLoading \cup {path}
                /\ mIssued' = Append(mIssued, path)
                /\ UNCHANGED mReply
        /\ UNCHANGED mIndex
        /\ UNCHANGED <<parseVars, fmtVars, queryVars, samplerVars, windowVars, adapterVars, panelVars, hostVars>>

\* load_waveform after the await: parseWaveformFile threw, or the index is
\* replaced and "Loaded ..." is the reply
LoadWaveformDone ==
    \E path \in mLoading :
        /\ mLoading' = mLoading \ {path}
        /\ IF ServerFiles[path].ok
           THEN /\ mIndex' = IndexAfterLoad(mIndex, path)
                /\ mReply' = [tool |-> "load_waveform", kind |-> "loaded", uri |-> path,
                              data |-> << >>]
           ELSE /\ mReply' = [tool |-> "load_waveform", kind |-> "error", uri |-> path,
                              data |-> << >>]
                /\ UNCHANGED mIndex
        /\ UNCHANGED <<mCalls, mIssued>>
        /\ UNCHANGED <<parseVars, fmtVars, queryVars, samplerVars, windowVars, adapterVars, panelVars, hostVars>>

NoWaveformLoaded(tool) == [tool |-> tool, kind |-> "noWaveform", uri |-> "", data |-> << >>]

ListSignalsTool ==
    /\ ServerRuns
    /\ mCalls' = mCalls + 1
    /\ mReply' = IF ~mIndex.loaded THEN NoWaveformLoaded("list_signals")
                 ELSE [tool |-> "list_signals", kind |-> "signals", uri |-> mIndex.uri,
                       data |-> listSignals(mIndex.signals, mIndex.bySignal)]
    /\ UNCHANGED <<mIndex, mLoading, mIssued>>
    /\ UNCHANGED <<parseVars, fmtVars, queryVars, samplerVars, windowVars, adapterVars, panelVars, hostVars>>

ToolSignals == {"a", "nosuch"}

ToolWindows == {<<0, 3>>, <<1, 1>>}

QueryTransitionsTool ==
    \E signal \in ToolSignals, w \in ToolWindows :
        /\ ServerRuns
        /\ mCalls' = mCalls + 1
        /\ mReply' =
             IF ~mIndex.loaded THEN NoWaveformLoaded("query_transitions")
             ELSE LET ts == queryTransitions(mIndex.bySignal, signal, w[1], w[2],
                                             TRANSITION_CAP)
                  IN  [tool |-> "query_transitions",
                       kind |-> IF Len(ts) = 0 THEN "empty"
                                ELSE IF Len(ts) >= TRANSITION_CAP THEN "capped"
                                ELSE "transitions",
                       uri |-> mIndex.uri, data |-> ts]
        /\ UNCHANGED <<mIndex, mLoading, mIssued>>
        /\ UNCHANGED <<parseVars, fmtVars, queryVars, samplerVars, windowVars, adapterVars, panelVars, hostVars>>

ToolTimes == {0, 2}

GetValueAtTool ==
    \E signal \in ToolSignals, time \in ToolTimes :
        /\ ServerRuns
        /\ mCalls' = mCalls + 1
        /\ mReply' =
             IF ~mIndex.loaded THEN NoWaveformLoaded("get_value_at")
             ELSE [tool |-> "get_value_at", kind |-> "value", uri |-> mIndex.uri,
                   data |-> <<getValueAt(mIndex.bySignal, signal, time)>>]
        /\ UNCHANGED <<mIndex, mLoading, mIssued>>
        /\ UNCHANGED <<parseVars, fmtVars, queryVars, samplerVars, windowVars, adapterVars, panelVars, hostVars>>

ServerNext ==
    \/ LoadWaveformCall \/ LoadWaveformDone
    \/ ListSignalsTool \/ QueryTransitionsTool \/ GetValueAtTool

\* ------------------------------------------------------------------------
\* The chat panel: ChatPanel.handleMessage
\* ------------------------------------------------------------------------
\* The webview listener calls handleMessage without awaiting it, so the
\* calls interleave at their awaits.  Query q owns controller q.
Queries == 1..MaxPanelQueries

\* the locals of a handleMessage call that has not started.  History:
\* hBefore is this.history when the call started, kept says that the history
\* was not cleared since, and terms counts the 'stream_end' and 'error'
\* messages the call posted.
NoCall ==
    [pc |-> "idle", hasRaw |-> FALSE, ctxJustSent |-> FALSE, full |-> FALSE,
     hBefore |-> << >>, kept |-> FALSE, terms |-> 0]

PanelInit ==
    /\ pHistory = << >>
    /\ pSent = FALSE
    /\ pCtl = 0
    /\ pAborted = {}
    /\ pPreloaded \in BOOLEAN
    /\ pEarlyProvider \in BOOLEAN
    /\ pQ = [q \in Queries |-> NoCall]
    /\ pSendDisabled = FALSE
    /\ pInjected = FALSE

\* the panel is not running
PanelIdle ==
    /\ pHistory = << >>
    /\ pSent = FALSE
    /\ pCtl = 0
    /\ pAborted = {}
    /\ pPreloaded = FALSE
    /\ pEarlyProvider = FALSE
    /\ pQ = [q \in Queries |-> NoCall]
    /\ pSendDisabled = FALSE
    /\ pInjected = FALSE

\* the call of query q is suspended at an await
Running(q) == pQ[q].pc \in {"collectA", "collectB", "streaming"}

UserEntry(q, block) == [role |-> "user", q |-> q, ctx |-> block]

AssistantEntry(q) == [role |-> "assistant", q |-> q, ctx |-> FALSE]

\* this.history.pop()
HistoryPop(h) == SubSeq(h, 1, Len(h) - 1)

\* the call with locals rec posts 'stream_end' or 'error' and returns: its
\* locals are gone
Terminated(rec) ==
    [NoCall EXCEPT !.pc = "done", !.terms = rec.terms + 1,
                   !.hBefore = rec.hBefore, !.kept = rec.kept]

\* the call rejects outside its try block: nothing is posted
Crashed == [NoCall EXCEPT !.pc = "crashed"]

\* handleMessage from the abort check after the collection to the first await
\* of the try block: "if (signal.aborted) { post 'stream_end'; ... return }",
\* the push of the user message, and createProvider() where it is called in
\* the try block (created says whether it returns a provider).
Proceed(q, calls, rec, sent, hist, block, created, ctl) ==
    IF q \in pAborted
    THEN /\ pQ' = [calls EXCEPT ![q] = Terminated(rec)]
         /\ pHistory' = hist
         /\ pSent' = sent
         /\ pCtl' = 0
    ELSE /\ pHistory' = Append(hist, UserEntry(q, block))
         /\ pSent' = sent
         /\ IF created
            THEN /\ pQ' = [calls EXCEPT ![q] =
                              [rec EXCEPT !.pc = "streaming",
                                          !.ctxJustSent = sent /\ block]]
                 /\ pCtl' = ctl
            ELSE \* catch: post 'error'; finally: the controller is cleared
                 /\ pQ' = [calls EXCEPT ![q] = Terminated(rec)]
                 /\ pCtl' = 0

\* handleMessage of a 'query' message up to its first await: the controller is
\* created and 'collecting' posted; marker says that the message came as a
\* 'marker_query', which clears the flag and the history first
QueryMessage(q, marker) ==
    LET sent0 == IF marker THEN FALSE ELSE pSent
        hist0 == IF marker THEN << >> ELSE pHistory
        calls == [r \in Queries |->
                     IF marker THEN [pQ[r] EXCEPT !.kept = FALSE] ELSE pQ[r]]
        rec == [NoCall EXCEPT !.hBefore = hist0, !.kept = TRUE]
    IN  /\ pInjected' = IF marker THEN FALSE ELSE pInjected
        /\ \E created \in BOOLEAN :
             IF pEarlyProvider /\ ~created
             THEN \* createProvider() throws outside the try block
                  /\ pQ' = [calls EXCEPT ![q] = Crashed]
                  /\ pCtl' = q
                  /\ pHistory' = hist0
                  /\ pSent' = sent0
             ELSE IF ~sent0
             THEN /\ pQ' = [calls EXCEPT ![q] =
                               IF pPreloaded
                               THEN [rec EXCEPT !.pc = "collectB", !.hasRaw = TRUE]
                               ELSE [rec EXCEPT !.pc = "collectA"]]
                  /\ pCtl' = q
                  /\ pHistory' = hist0
                  /\ pSent' = sent0
             ELSE Proceed(q, calls, rec, sent0, hist0, FALSE,
                          created \/ pEarlyProvider, q)

\* the next query of the session
NextQuery(q) == pQ[q].pc = "idle" /\ \A r \in 1..(q - 1) : pQ[r].pc # "idle"

\* the webview after the call of query q ran: 'stream_end' and 'error' enable
\* its send button
SendAfter(q, disabled) == IF pQ'[q].pc = "done" THEN FALSE ELSE disabled

\* send() of the webview, which needs the send button enabled and disables
\* it, and the 'query' message it posts
Query ==
    \E q \in Queries :
        /\ NextQuery(q)
        /\ ~pSendDisabled
        /\ QueryMessage(q, FALSE)
        /\ pSendDisabled' = SendAfter(q, TRUE)
        /\ UNCHANGED <<pAborted, pPreloaded, pEarlyProvider>>
        /\ UNCHANGED <<parseVars, fmtVars, queryVars, samplerVars, windowVars, adapterVars, serverVars, hostVars>>

\* a click on a suggestion chip of the webview, which disables the send
\* button, and the 'marker_query' message it posts
MarkerQuery ==
    \E q \in Queries :
        /\ NextQuery(q)
        /\ QueryMessage(q, TRUE)
        /\ pSendDisabled' = SendAfter(q, TRUE)
        /\ UNCHANGED <<pAborted, pPreloaded, pEarlyProvider>>
        /\ UNCHANGED <<parseVars, fmtVars, queryVars, samplerVars, windowVars, adapterVars, serverVars, hostVars>>

\* "await buildWaveformContext(...)" settles: it rejects, or returns null or a
\* context; then the abort check of the VaporView branch
CollectADone ==
    \E q \in Queries, outcome \in {"throws", "null", "ctx"} :
        /\ pQ[q].pc = "collectA"
        /\ IF outcome = "throws"
           THEN /\ pQ' = [pQ EXCEPT ![q] = Crashed]
                /\ pCtl' = pCtl
           ELSE IF q \in pAborted
           THEN /\ pQ' = [pQ EXCEPT ![q] = Terminated(pQ[q])]
                /\ pCtl' = 0
           ELSE /\ pQ' = [pQ EXCEPT ![q].pc = "collectB",
                                    ![q].hasRaw = (outcome = "ctx")]
                /\ pCtl' = pCtl
        /\ pSendDisabled' = SendAfter(q, pSendDisabled)
        /\ UNCHANGED <<pHistory, pSent, pAborted, pPreloaded, pEarlyProvider, pInjected>>
        /\ UNCHANGED <<parseVars, fmtVars, queryVars, samplerVars, windowVars, adapterVars, serverVars, hostVars>>

\* "await collectHdlContextSmart(...)" settles: it rejects, or returns null or
\* a text; a non-empty context block sets the flag; then the call proceeds
CollectBDone ==
    \E q \in Queries, outcome \in {"throws", "null", "text"} :
        /\ pQ[q].pc = "collectB"
        /\ IF outcome = "throws"
           THEN /\ pQ' = [pQ EXCEPT ![q] = Crashed]
                /\ UNCHANGED <<pHistory, pSent, pCtl, pInjected>>
           ELSE LET block == pQ[q].hasRaw \/ outcome = "text"
                    sent == IF block THEN TRUE ELSE pSent
                IN  /\ pInjected' = (pInjected \/ block)
                    /\ \E created \in BOOLEAN :
                         Proceed(q, pQ, pQ[q], sent, pHistory, block,
                                 created \/ pEarlyProvider, pCtl)
        /\ pSendDisabled' = SendAfter(q, pSendDisabled)
        /\ UNCHANGED <<pAborted, pPreloaded, pEarlyProvider>>
        /\ UNCHANGED <<parseVars, fmtVars, queryVars, samplerVars, windowVars, adapterVars, serverVars, hostVars>>

\* the provider's stream yields a chunk: fullResponse += chunk
StreamChunk ==
    \E q \in Queries :
        /\ pQ[q].pc = "streaming"
        /\ ~pQ[q].full
        /\ pQ' = [pQ EXCEPT ![q].full = TRUE]
        /\ UNCHANGED <<pHistory, pSent, pCtl, pAborted, pPreloaded, pEarlyProvider, pSendDisabled,
                       pInjected>>
        /\ UNCHANGED <<parseVars, fmtVars, queryVars, samplerVars, windowVars, adapterVars, serverVars, hostVars>>

\* the provider's stream ends (also by its break on an aborted signal):
\* a non-empty response is pushed, 'stream_end' is posted, finally runs
StreamEnd ==
    \E q \in Queries :
        /\ pQ[q].pc = "streaming"
        /\ pHistory' = IF pQ[q].full THEN Append(pHistory, AssistantEntry(q))
                                     ELSE pHistory
        /\ pQ' = [pQ EXCEPT ![q] = Terminated(pQ[q])]
        /\ pCtl' = 0
        /\ pSendDisabled' = FALSE
        /\ UNCHANGED <<pSent, pAborted, pPreloaded, pEarlyProvider, pInjected>>
        /\ UNCHANGED <<parseVars, fmtVars, queryVars, samplerVars, windowVars, adapterVars, serverVars, hostVars>>

\* the try block throws: the catch block and finally
StreamThrows ==
    \E q \in Queries :
        /\ pQ[q].pc = "streaming"
        /\ IF q \in pAborted
           THEN /\ pHistory' = HistoryPop(pHistory)
                /\ pSent' = IF pQ[q].ctxJustSent THEN FALSE ELSE pSent
           ELSE UNCHANGED <<pHistory, pSent>>
        /\ pQ' = [pQ EXCEPT ![q] = Terminated(pQ[q])]
        /\ pCtl' = 0
        /\ pSendDisabled' = FALSE
        /\ UNCHANGED <<pAborted, pPreloaded, pEarlyProvider, pInjected>>
        /\ UNCHANGED <<parseVars, fmtVars, queryVars, samplerVars, windowVars, adapterVars, serverVars, hostVars>>

\* a 'stop' message: this.currentAbortController?.abort()
Stop ==
    /\ pCtl # 0
    /\ pAborted' = pAborted \cup {pCtl}
    /\ UNCHANGED <<pHistory, pSent, pCtl, pPreloaded, pEarlyProvider, pQ, pSendDisabled, pInjected>>
    /\ UNCHANGED <<parseVars, fmtVars, queryVars, samplerVars, windowVars, adapterVars, serverVars, hostVars>>

\* a 'refresh' message
Refresh ==
    /\ pSent' = FALSE
    /\ pHistory' = << >>
    /\ pInjected' = FALSE
    /\ pQ' = [q \in Queries |-> [pQ[q] EXCEPT !.kept = FALSE]]
    /\ UNCHANGED <<pCtl, pAborted, pPreloaded, pEarlyProvider, pSendDisabled>>
    /\ UNCHANGED <<parseVars, fmtVars, queryVars, samplerVars, windowVars, adapterVars, serverVars, hostVars>>

PanelNext ==
    \/ Query \/ MarkerQuery
    \/ CollectADone \/ CollectBDone
    \/ StreamChunk \/ StreamEnd \/ StreamThrows
    \/ Stop \/ Refresh

\* ------------------------------------------------------------------------
\* The registration of the chat panel: ChatPanel.instance
\* ------------------------------------------------------------------------
Panels == 1..MaxPanels

InstInit ==
    /\ cInstance = 0
    /\ cAlive = {}
    /\ cPending = {}
    /\ cPreloaded = {}
    /\ cMade = 0

\* everything but the registration of the chat panel
instFrame == <<parseVars, fmtVars, queryVars, samplerVars, windowVars, adapterVars, serverVars,
               panelVars, execVars, loopVars, trackVars>>

\* ChatPanel.createOrShow: the instance is revealed, or a panel is created
\* and registered
CreateOrShow ==
    /\ cInstance # 0 \/ cMade < MaxPanels
    /\ IF cInstance # 0
       THEN UNCHANGED <<cInstance, cAlive, cMade>>
       ELSE /\ cMade' = cMade + 1
            /\ cAlive' = cAlive \cup {cMade + 1}
            /\ cInstance' = cMade + 1
    /\ UNCHANGED <<cPending, cPreloaded>>
    /\ UNCHANGED instFrame

\* ChatPanel.createWithFile: the panel of the instance is disposed and the
\* instance cleared, then a panel is created, given the context and
\* registered.  panel.dispose() fires onDidDispose, whose callback runs within
\* the call or, when late, after it.
CreateWithFile ==
    \E late \in BOOLEAN :
        /\ cMade < MaxPanels
        /\ cPending' = IF late /\ cInstance \in cAlive
                       THEN cPending \cup {cInstance} ELSE cPending
        /\ cMade' = cMade + 1
        /\ cAlive' = (cAlive \ {cInstance}) \cup {cMade + 1}
        /\ cPreloaded' = cPreloaded \cup {cMade + 1}
        /\ cInstance' = cMade + 1
        /\ UNCHANGED instFrame

\* the user closes panel n: the panel is disposed and the callback of
\* onDidDispose runs dispose()
PanelClosed ==
    \E n \in cAlive :
        /\ cAlive' = cAlive \ {n}
        /\ cInstance' = 0
        /\ UNCHANGED <<cPending, cPreloaded, cMade>>
        /\ UNCHANGED instFrame

\* the callback of onDidDispose of a panel disposed by createWithFile runs
\* dispose(): "ChatPanel.instance = undefined; this.panel.dispose(); ..."
DisposeCallback ==
    \E n \in cPending :
        /\ cPending' = cPending \ {n}
        /\ cInstance' = 0
        /\ UNCHANGED <<cAlive, cPreloaded, cMade>>
        /\ UNCHANGED instFrame

InstNext == CreateOrShow \/ CreateWithFile \/ PanelClosed \/ DisposeCallback

\* ------------------------------------------------------------------------
\* The tool executor of the chat panel: buildToolExecutor
\* ------------------------------------------------------------------------
\* new WaveformIndex({ signals, transitions, endTime })
ToolIndex(names, log, end) ==
    [signals |-> names, bySignal |-> BySignal(log), endTime |-> end]

\* the log with other values for the signals that are not "a"
Masked(log) ==
    [k \in 1..Len(log) |->
        IF log[k].signal = "a" THEN log[k] ELSE [log[k] EXCEPT !.value = "z"]]

\* the indexes the executor is built on: two signals in turn, the same with
\* other values of "b", the same without "b", and one signal with one
\* transition more than the cap
ExecIndexes ==
    { ToolIndex(<<"a", "b">>, MakeLog("two", 4), 3),
      ToolIndex(<<"a", "b">>, Masked(MakeLog("two", 4)), 3),
      ToolIndex(<<"a">>, SelectSeq(MakeLog("two", 4), LAMBDA t : t.signal = "a"), 3),
      ToolIndex(<<"a">>, MakeLog("one", TRANSITION_CAP + 1), TRANSITION_CAP) }

\* selSet: null, or new Set(this.selectedSignals)
NoSelection == [set |-> FALSE, v |-> {}]

\* the selections of the signal picker; an empty or absent one gives null
ExecSelections == {NoSelection, [set |-> TRUE, v |-> {"a"}]}

\* args['signal'] when the call gives none
NoSignal == [set |-> FALSE, v |-> ""]

\* both indexes hold the same for the signals of sel: their place in the
\* list of signals, their transitions, and the end time
AgreeOn(idx, other, sel) ==
    /\ SelectSeq(idx.signals, LAMBDA n : n \in sel)
         = SelectSeq(other.signals, LAMBDA n : n \in sel)
    /\ \A n \in sel : Bucket(idx.bySignal, n) = Bucket(other.bySignal, n)
    /\ idx.endTime = other.endTime

NoToolCall == [name |-> "", signal |-> NoSignal, t_start |-> None, t_end |-> None, time |-> None]

NoToolOut == [kind |-> "none", sig |-> "", from |-> 0, to |-> 0, note |-> FALSE, data |-> << >>]

ExecInit ==
    /\ xIdx \in ExecIndexes
    /\ xSel \in ExecSelections
    /\ xOther \in {o \in ExecIndexes :
                      IF xSel.set THEN AgreeOn(xIdx, o, xSel.v) ELSE o = xIdx}
    /\ xCall = NoToolCall
    /\ xOut = NoToolOut
    /\ xOutOther = NoToolOut
    /\ xCalls = 0

\* the executor is not built
ExecIdle ==
    /\ xIdx = ToolIndex(<< >>, << >>, 0)
    /\ xOther = ToolIndex(<< >>, << >>, 0)
    /\ xSel = NoSelection
    /\ xCall = NoToolCall
    /\ xOut = NoToolOut
    /\ xOutOther = NoToolOut
    /\ xCalls = 0

\* case 'list_signals'
ExecListSignals(idx, selSet) ==
    LET all == listSignals(idx.signals, idx.bySignal)
    IN  [NoToolOut EXCEPT
            !.kind = "signals",
            !.data = IF selSet.set THEN SelectSeq(all, LAMBDA e : e.name \in selSet.v)
                                   ELSE all]

\* the text of case 'query_transitions': built from the signal and the range
\* when nothing was found, else from the note and each "t=time: value"
QueryText(result, sig, tStart, tEnd) ==
    IF Len(result) = 0
    THEN [NoToolOut EXCEPT !.kind = "notFound", !.sig = sig, !.from = tStart, !.to = tEnd]
    ELSE [NoToolOut EXCEPT
            !.kind = "transitions",
            !.note = (Len(result) >= TRANSITION_CAP),
            !.data = [k \in 1..Len(result) |-> <<result[k].time, result[k].value>>]]

\* case 'query_transitions': sig = String(args['signal'] ?? ''),
\* tStart = Number(args['t_start'] ?? 0), tEnd = Number(args['t_end'] ?? idx.endTime)
ExecQueryTransitions(idx, call) ==
    QueryText(queryTransitions(idx.bySignal, call.signal.v,
                               Coalesce(call.t_start, Some(0)).v,
                               Coalesce(call.t_end, Some(idx.endTime)).v, TRANSITION_CAP),
              call.signal.v, Coalesce(call.t_start, Some(0)).v,
              Coalesce(call.t_end, Some(idx.endTime)).v)

\* case 'get_value_at'
ExecGetValueAt(idx, call) ==
    LET sig == call.signal.v
        time == Coalesce(call.time, Some(0)).v
    IN  [NoToolOut EXCEPT !.kind = "value", !.sig = sig, !.from = time,
                          !.data = <<getValueAt(idx.bySignal, sig, time)>>]

\* the function buildToolExecutor returns: (name, args) => string
ToolExecutor(idx, selSet, call) ==
    CASE call.name = "list_signals" -> ExecListSignals(idx, selSet)
      [] call.name = "query_transitions" -> ExecQueryTransitions(idx, call)
      [] call.name = "get_value_at" -> ExecGetValueAt(idx, call)
      [] OTHER -> [NoToolOut EXCEPT !.kind = "unknown", !.sig = call.name]

\* the arguments the model sends: a selected, an unselected or no signal; no
\* range (the whole index, one transition more than the cap in the longest),
\* a point, and ranges that hold one transition less than the cap and as
\* many as the cap
ExecSignals == {NoSignal, [set |-> TRUE, v |-> "a"], [set |-> TRUE, v |-> "b"]}

ExecRanges ==
    { <<None, None>>, <<Some(1), Some(1)>>,
      <<Some(0), Some(TRANSITION_CAP - 2)>>, <<Some(0), Some(TRANSITION_CAP - 1)>> }

ExecTimes == {None, Some(2)}

\* everything but the tool executor
execFrame == <<parseVars, fmtVars, queryVars, samplerVars, windowVars, adapterVars, serverVars,
               panelVars, instVars, loopVars, trackVars>>

\* the calls of the tool loop: each tool of WAVEFORM_TOOLS with the arguments
\* above, and a tool the executor does not know
ExecCalls ==
    {[NoToolCall EXCEPT !.name = "list_signals"], [NoToolCall EXCEPT !.name = "find_hdl_modules"]}
    \cup {[NoToolCall EXCEPT !.name = "query_transitions", !.signal = signal,
                             !.t_start = range[1], !.t_end = range[2]] :
            signal \in ExecSignals, range \in ExecRanges}
    \cup {[NoToolCall EXCEPT !.name = "get_value_at", !.signal = signal, !.time = time] :
            signal \in ExecSignals, time \in ExecTimes}

\* the tool loop calls the executor; the same call is made on the second index
ExecuteTool ==
    \E call \in ExecCalls :
        /\ xCalls < MaxExecCalls
        /\ xCalls' = xCalls + 1
        /\ xCall' = call
        /\ LET out == [index \in {xIdx, xOther} |-> ToolExecutor(index, xSel, call)]
           IN  xOut' = out[xIdx] /\ xOutOther' = out[xOther]
        /\ UNCHANGED <<xIdx, xOther, xSel>>
        /\ UNCHANGED execFrame

\* ------------------------------------------------------------------------
\* The tool loop of the provider clients: chatWithTools
\* ------------------------------------------------------------------------
\* for (let round = 0; round < 10; round++)
ROUND_LIMIT == 10

\* the text returned when the loop runs out of rounds
ExceededText == "Tool loop exceeded maximum rounds without a final answer."

\* a text that is absent: no text block, or content null
NoText == [set |-> FALSE, v |-> ""]

\* a text that names a tool call in JSON instead of giving an analysis
ToolCallText == "{\"name\": \"list_signals\", \"arguments\": {}}"

\* no response yet
NoResp == [message |-> FALSE, tools |-> 0, text |-> NoText, endTurn |-> FALSE]

\* what client.messages.create can resolve to: content with up to two
\* tool_use blocks, with or without a text block, and the stop_reason
AnthropicResponses ==
    [message : {TRUE}, tools : 0..2,
     text : {NoText, [set |-> TRUE, v |-> "analysis"]}, endTurn : BOOLEAN]

\* what client.chat.completions.create can resolve to: no choice at all, or
\* a message with up to two tool_calls and a content
OpenAIResponses ==
    {NoResp} \cup
    [message : {TRUE}, tools : 0..2,
     text : {NoText} \cup {[set |-> TRUE, v |-> t] : t \in {"", "analysis", ToolCallText}},
     endTurn : {FALSE}]

\* what the plain-text retry can resolve to: retry.choices[0]?.message?.content
RetryTexts == {NoText, [set |-> TRUE, v |-> "plain analysis"]}

\* !content.trim() || (content.includes('"name"') && content.includes('"arguments"'))
NeedsRetry(content) == content = "" \/ content = ToolCallText

\* chatWithTools is called by one of the two clients, the signal not yet set
LoopInit ==
    /\ lClient \in {"anthropic", "openai"}
    /\ lPc = "top"
    /\ lRound = 0
    /\ lAborted = FALSE
    /\ lResp = NoResp
    /\ lResult = ""
    /\ lExit = "none"
    /\ lRequests = 0
    /\ lRetries = 0
    /\ lToolRuns = 0

\* no tool loop runs
LoopIdle ==
    /\ lClient = "none"
    /\ lPc = "done"
    /\ lRound = 0
    /\ lAborted = FALSE
    /\ lResp = NoResp
    /\ lResult = ""
    /\ lExit = "none"
    /\ lRequests = 0
    /\ lRetries = 0
    /\ lToolRuns = 0

loopFrame == <<parseVars, fmtVars, queryVars, samplerVars, windowVars, adapterVars, serverVars,
               panelVars, instVars, execVars, trackVars>>

\* the user presses stop: the controller of the query aborts its signal
AbortSignal ==
    /\ lPc \in {"top", "awaiting", "retrying"}
    /\ ~lAborted
    /\ lAborted' = TRUE
    /\ UNCHANGED <<lClient, lPc, lRound, lResp, lResult, lExit, lRequests, lRetries, lToolRuns>>
    /\ UNCHANGED loopFrame

\* the head of a round: the test of the signal, then the request
RoundStart ==
    /\ lPc = "top"
    /\ lRound < ROUND_LIMIT
    /\ IF lAborted
       THEN /\ lPc' = "done"
            /\ lResult' = ""
            /\ lExit' = "aborted"
            /\ UNCHANGED lRequests
       ELSE /\ lPc' = "awaiting"
            /\ lRequests' = lRequests + 1
            /\ UNCHANGED <<lResult, lExit>>
    /\ UNCHANGED <<lClient, lRound, lAborted, lResp, lRetries, lToolRuns>>
    /\ UNCHANGED loopFrame

\* the loop condition fails: the statement after the loop
LoopEnd ==
    /\ lPc = "top"
    /\ lRound >= ROUND_LIMIT
    /\ lPc' = "done"
    /\ lResult' = ExceededText
    /\ lExit' = "exceeded"
    /\ UNCHANGED <<lClient, lRound, lAborted, lResp, lRequests, lRetries, lToolRuns>>
    /\ UNCHANGED loopFrame

\* the request of a round or the retry rejects: chatWithTools rejects
RequestFails ==
    /\ lPc \in {"awaiting", "retrying"}
    /\ lPc' = "threw"
    /\ lExit' = "threw"
    /\ UNCHANGED <<lClient, lRound, lAborted, lResp, lResult, lRequests, lRetries, lToolRuns>>
    /\ UNCHANGED loopFrame

\* AnthropicClient.chatWithTools after the await of a round
AnthropicResponse ==
    /\ lClient = "anthropic"
    /\ lPc = "awaiting"
    /\ \E response \in AnthropicResponses :
        /\ lResp' = response
        /\ IF response.tools = 0 \/ response.endTurn
           THEN /\ lPc' = "done"
                /\ lResult' = response.text.v
                /\ lExit' = "text"
                /\ UNCHANGED <<lRound, lToolRuns>>
           ELSE /\ lPc' = "top"
                /\ lToolRuns' = lToolRuns + response.tools
                /\ lRound' = lRound + 1
                /\ UNCHANGED <<lResult, lExit>>
    /\ UNCHANGED <<lClient, lAborted, lRequests, lRetries>>
    /\ UNCHANGED loopFrame

\* OpenAICompatibleClient.chatWithTools after the await of a round
OpenAIResponse ==
    /\ lClient = "openai"
    /\ lPc = "awaiting"
    /\ \E response \in OpenAIResponses :
        /\ lResp' = response
        /\ IF ~response.message
           THEN \* break: the statement after the loop
                /\ lPc' = "done"
                /\ lResult' = ExceededText
                /\ lExit' = "exceeded"
                /\ UNCHANGED <<lRound, lToolRuns, lRetries>>
           ELSE IF response.tools = 0
           THEN IF NeedsRetry(response.text.v)
                THEN /\ lPc' = "retrying"
                     /\ lRetries' = lRetries + 1
                     /\ UNCHANGED <<lRound, lToolRuns, lResult, lExit>>
                ELSE /\ lPc' = "done"
                     /\ lResult' = response.text.v
                     /\ lExit' = "text"
                     /\ UNCHANGED <<lRound, lToolRuns, lRetries>>
           ELSE /\ lPc' = "top"
                /\ lToolRuns' = lToolRuns + response.tools
                /\ lRound' = lRound + 1
                /\ UNCHANGED <<lResult, lExit, lRetries>>
    /\ UNCHANGED <<lClient, lAborted, lRequests>>
    /\ UNCHANGED loopFrame

\* the plain-text retry resolves: retry.choices[0]?.message?.content ?? content
RetryResponse ==
    /\ lPc = "retrying"
    /\ \E retry \in RetryTexts :
        lResult' = IF retry.set THEN retry.v ELSE lResp.text.v
    /\ lPc' = "done"
    /\ lExit' = "retry"
    /\ UNCHANGED <<lClient, lRound, lAborted, lResp, lRequests, lRetries, lToolRuns>>
    /\ UNCHANGED loopFrame

LoopNext == AbortSignal \/ RoundStart \/ LoopEnd \/ RequestFails \/ AnthropicResponse
            \/ OpenAIResponse \/ RetryResponse

\* ------------------------------------------------------------------------
\* The signals displayed in the viewer: SignalTracker
\* ------------------------------------------------------------------------
\* the uris of the documents and the instance paths of the signals
TrackUris == {"file:///w1.vcd", "file:///w2.vcd"}

TrackPaths == {"top.a", "top.b"}

\* the documents the viewer can have open, in its order
TrackDocs == {<< >>, <<"file:///w1.vcd">>, <<"file:///w1.vcd", "file:///w2.vcd">>}

\* the uris of a list of documents
UrisOf(docs) == {docs[k] : k \in DOMAIN docs}

\* uriKey of a uri given as a string
uriKey(uri) == uri

\* the handler of onDidAddVariable
OnDidAddVariable(tracked, e) ==
    [tracked EXCEPT ![uriKey(e.uri)] = @ \cup {e.instancePath}]

\* the handler of onDidRemoveVariable
OnDidRemoveVariable(tracked, e) ==
    [tracked EXCEPT ![uriKey(e.uri)] = @ \ {e.instancePath}]

\* getSignals(uri): the set of the uri, or none when the map has no such key
getSignals(tracked, uri) == tracked[uri]

\* activate: new SignalTracker(log) subscribes, tracker.initialize() is
\* called and is at its first await; the viewer displays some signals of
\* its open documents
TrackInit ==
    /\ vDocs \in TrackDocs
    /\ vShown \in [TrackUris -> SUBSET TrackPaths]
    /\ \A u \in TrackUris \ UrisOf(vDocs) : vShown[u] = {}
    /\ vEvents = << >>
    /\ vOps = 0
    /\ tSignals = [u \in TrackUris |-> {}]
    /\ tPc = "docs"
    /\ tDocs = << >>
    /\ tAt = 0
    /\ tState = {}

\* no viewer and no tracker
TrackIdle ==
    /\ vDocs = << >>
    /\ vShown = [u \in TrackUris |-> {}]
    /\ vEvents = << >>
    /\ vOps = 0
    /\ tSignals = [u \in TrackUris |-> {}]
    /\ tPc = "done"
    /\ tDocs = << >>
    /\ tAt = 0
    /\ tState = {}

trackFrame == <<parseVars, fmtVars, queryVars, samplerVars, windowVars, adapterVars, serverVars,
                panelVars, instVars, execVars, loopVars>>

\* the user adds a signal to a document of the viewer: the event is fired
ViewerAdd ==
    /\ vOps < MaxViewerOps
    /\ \E u \in UrisOf(vDocs), p \in TrackPaths :
        /\ p \notin vShown[u]
        /\ vShown' = [vShown EXCEPT ![u] = @ \cup {p}]
        /\ vEvents' = Append(vEvents, [kind |-> "add", uri |-> u, instancePath |-> p])
    /\ vOps' = vOps + 1
    /\ UNCHANGED <<vDocs, tSignals, tPc, tDocs, tAt, tState>>
    /\ UNCHANGED trackFrame

\* the user removes a signal from a document of the viewer: the event is fired
ViewerRemove ==
    /\ vOps < MaxViewerOps
    /\ \E u \in UrisOf(vDocs), p \in TrackPaths :
        /\ p \in vShown[u]
        /\ vShown' = [vShown EXCEPT ![u] = @ \ {p}]
        /\ vEvents' = Append(vEvents, [kind |-> "remove", uri |-> u, instancePath |-> p])
    /\ vOps' = vOps + 1
    /\ UNCHANGED <<vDocs, tSignals, tPc, tDocs, tAt, tState>>
    /\ UNCHANGED trackFrame

\* the oldest event is delivered to the handler subscribed for it
DeliverEvent ==
    /\ vEvents # << >>
    /\ tSignals' = IF Head(vEvents).kind = "add"
                   THEN OnDidAddVariable(tSignals, Head(vEvents))
                   ELSE OnDidRemoveVariable(tSignals, Head(vEvents))
    /\ vEvents' = Tail(vEvents)
    /\ UNCHANGED <<vDocs, vShown, vOps, tPc, tDocs, tAt, tState>>
    /\ UNCHANGED trackFrame

\* initialize() after the await of waveformViewer.getOpenDocuments, up to
\* the request of the state of the first document
GetOpenDocuments ==
    /\ tPc = "docs"
    /\ tDocs' = vDocs
    /\ IF Len(vDocs) = 0
       THEN tPc' = "done" /\ tAt' = tAt
       ELSE tPc' = "state" /\ tAt' = 1
    /\ UNCHANGED <<vDocs, vShown, vEvents, vOps, tSignals, tState>>
    /\ UNCHANGED trackFrame

\* the viewer runs waveformViewer.getViewerState for the uri of the loop
GetViewerState ==
    /\ tPc = "state"
    /\ tState' = vShown[tDocs[tAt]]
    /\ tPc' = "apply"
    /\ UNCHANGED <<vDocs, vShown, vEvents, vOps, tSignals, tDocs, tAt>>
    /\ UNCHANGED trackFrame

\* initialize() after the await of getViewerState: the displayed signals are
\* added to the set of the uri, and the loop goes to the next document
AddDisplayed ==
    /\ tPc = "apply"
    /\ tSignals' = IF tState = {}
                   THEN tSignals
                   ELSE [tSignals EXCEPT ![tDocs[tAt]] = @ \cup tState]
    /\ IF tAt < Len(tDocs)
       THEN tAt' = tAt + 1 /\ tPc' = "state"
       ELSE tAt' = tAt /\ tPc' = "done"
    /\ UNCHANGED <<vDocs, vShown, vEvents, vOps, tDocs, tState>>
    /\ UNCHANGED trackFrame

TrackNext == ViewerAdd \/ ViewerRemove \/ DeliverEvent \/ GetOpenDocuments \/ GetViewerState
             \/ AddDisplayed

\* the extension host outside the chat panel's handler is not running
HostIdle == InstInit /\ ExecIdle /\ LoopIdle /\ TrackIdle

\* ------------------------------------------------------------------------
\* Specifications
\* ------------------------------------------------------------------------
\* parseVcd on the sample headers followed by any data lines
Init == ParseInit /\ FmtIdle /\ QueryIdle /\ SamplerIdle /\ WindowIdle /\ AdapterIdle /\ ServerIdle /\ PanelIdle /\ HostIdle

Spec == Init
          /\ [][ParseNext]_vars

\* formatBits on the inputs of BitsInputs and WidthInputs
InitFmt == ParseIdle /\ FmtInit /\ QueryIdle /\ SamplerIdle /\ WindowIdle /\ AdapterIdle /\ ServerIdle /\ PanelIdle /\ HostIdle

SpecFmt == InitFmt
          /\ [][FormatBitsCall]_vars

\* the queries of a WaveformIndex built from the logs of MakeLog
InitQuery == ParseIdle /\ FmtIdle /\ QueryInit /\ SamplerIdle /\ WindowIdle /\ AdapterIdle /\ ServerIdle /\ PanelIdle /\ HostIdle

SpecQuery == InitQuery
          /\ [][QueryNext]_vars

\* collectTransitions on the runs of RunInputs
InitSampler == ParseIdle /\ FmtIdle /\ QueryIdle /\ SamplerInit /\ WindowIdle /\ AdapterIdle /\ ServerIdle /\ PanelIdle /\ HostIdle

SpecSampler == InitSampler
          /\ [][SamplerNext]_vars

\* the same, every iteration that can be made being made
SpecSamplerFair == SpecSampler /\ WF_vars(SamplerNext)

\* collectTransitions on the runs of ExitRunInputs, with the Stop button
InitExits == ParseIdle /\ FmtIdle /\ QueryIdle /\ ExitInit /\ WindowIdle /\ AdapterIdle /\ ServerIdle /\ PanelIdle /\ HostIdle

SpecExits == InitExits /\ [][ExitsNext]_vars

\* buildWaveformContext on the viewer states of ViewerStates
InitWindow == ParseIdle /\ FmtIdle /\ QueryIdle /\ SamplerIdle /\ WindowInit /\ AdapterIdle /\ ServerIdle /\ PanelIdle /\ HostIdle

SpecWindow == InitWindow /\ [][WindowNext]_vars

\* parseWaveformFile on the paths of PathInputs
InitAdapter == ParseIdle /\ FmtIdle /\ QueryIdle /\ SamplerIdle /\ WindowIdle /\ AdapterInit
               /\ ServerIdle /\ PanelIdle /\ HostIdle

SpecAdapter == InitAdapter /\ [][AdapterNext]_vars

\* parseVcd on the dumps of ScopeHeaders
InitHeader == HeaderInit /\ FmtIdle /\ QueryIdle /\ SamplerIdle /\ WindowIdle /\ AdapterIdle
              /\ ServerIdle /\ PanelIdle /\ HostIdle

SpecHeader == InitHeader /\ [][ParseNext]_vars

\* the MCP server under any tool calls, loads overlapping
InitServer == ParseIdle /\ FmtIdle /\ QueryIdle /\ SamplerIdle /\ WindowIdle /\ AdapterIdle
              /\ ServerInit /\ PanelIdle /\ HostIdle

SpecServer == InitServer /\ [][ServerNext]_vars

\* the chat panel under any interleaving of its messages and awaits
InitPanel == ParseIdle /\ FmtIdle /\ QueryIdle /\ SamplerIdle /\ WindowIdle /\ AdapterIdle
             /\ ServerIdle /\ PanelInit /\ HostIdle

SpecPanel == InitPanel /\ [][PanelNext]_vars

\* the commands that open the chat panel, in any order
InitInst == ParseIdle /\ FmtIdle /\ QueryIdle /\ SamplerIdle /\ WindowIdle /\ AdapterIdle
            /\ ServerIdle /\ PanelIdle /\ InstInit /\ ExecIdle /\ LoopIdle /\ TrackIdle

SpecInst == InitInst /\ [][InstNext]_vars

\* the tool executor under any tool calls
InitExec == ParseIdle /\ FmtIdle /\ QueryIdle /\ SamplerIdle /\ WindowIdle /\ AdapterIdle
            /\ ServerIdle /\ PanelIdle /\ InstInit /\ ExecInit /\ LoopIdle /\ TrackIdle

SpecExec == InitExec /\ [][ExecuteTool]_vars

\* chatWithTools of either client under any responses of the provider
InitLoop == ParseIdle /\ FmtIdle /\ QueryIdle /\ SamplerIdle /\ WindowIdle /\ AdapterIdle
            /\ ServerIdle /\ PanelIdle /\ InstInit /\ ExecIdle /\ LoopInit /\ TrackIdle

SpecLoop == InitLoop /\ [][LoopNext]_vars

\* the tracker's initialize() among the changes and the events of the viewer
InitTrack == ParseIdle /\ FmtIdle /\ QueryIdle /\ SamplerIdle /\ WindowIdle /\ AdapterIdle
             /\ ServerIdle /\ PanelIdle /\ InstInit /\ ExecIdle /\ LoopIdle /\ TrackInit

SpecTrack == InitTrack /\ [][TrackNext]_vars

\* ------------------------------------------------------------------------
\* Properties of parseVcd (specification Spec)
\* ------------------------------------------------------------------------
Returned == pc = "done"

\* the value of the last transition of a path in a log, or no value
LogHas(log, path) == \E k \in 1..Len(log) : log[k].signal = path

LastLogged(log, path) ==
    log[CHOOSE k \in 1..Len(log) :
            log[k].signal = path /\ \A j \in (k + 1)..Len(log) : log[j].signal # path].value

\* a step of the data loop that has read the line raw'
DataLoopStep == pc = "data" /\ pc' = "data" /\ i' = i + 1

\* C1: in the returned log every transition has a time t with
\* 0 <= t <= endTime.
C1_TimesWithinEndTime ==
    Returned => \A k \in 1..Len(transitions) :
                    JsGe(transitions[k].time, 0) /\ JsLe(transitions[k].time, endTime)

\* C2: in the returned log the transitions of one signal have non-decreasing
\* times, so every bucket of an index built from it is sorted by time.
C2_BucketsSortedByTime ==
    Returned => \A sig \in DOMAIN BySignal(transitions) :
                    LET bucket == BySignal(transitions)[sig]
                    IN  \A k \in 1..(Len(bucket) - 1) : JsLe(bucket[k].time, bucket[k + 1].time)

\* no two transitions of a signal that follow each other in the log (for
\* that signal) carry the same value
NoRepeatedValue(log) ==
    \A sig \in DOMAIN BySignal(log) :
        LET bucket == BySignal(log)[sig]
        IN  \A k \in 1..(Len(bucket) - 1) : bucket[k].value # bucket[k + 1].value

\* C3: dedup invariant: consecutive transitions of a signal never carry the
\* same formatted value, and a value-change record of a declared signal is
\* appended exactly when its formatted value differs from the last value
\* recorded for the signal's path.
C3_DedupRule ==
    /\ [](NoRepeatedValue(transitions))
    /\ [][DataLoopStep =>
            LET rec == ParseRecord(Trim(raw'))
            IN  (rec.kind # "none" /\ MapHas(signalDefs, rec.id)) =>
                  LET sig    == signalDefs[rec.id]
                      value  == FormattedValue(rec, sig.width)
                      differs == ~LogHas(transitions, sig.path)
                                    \/ LastLogged(transitions, sig.path) # value
                  IN  IF differs
                      THEN transitions' = Append(transitions,
                              [time |-> currentTime, signal |-> sig.path, value |-> value])
                      ELSE transitions' = transitions]_vars

\* C4: a dump with a bulk-dump wrapper pair parses to the same transitions
\* and signals as the same dump with the two wrapper lines removed.
C4_WrappersTransparent ==
    (Returned /\ bracket = "out") =>
        /\ transitions = unwrapped.transitions
        /\ signalsWithTransitions = unwrapped.signalsWithTransitions

\* C6: the returned signal catalog is exactly the set of signal paths that
\* occur in the returned log, each listed once.
C6_CatalogIsSignalsOfLog ==
    /\ {signalsWithTransitions[k] : k \in 1..Len(signalsWithTransitions)}
          = {transitions[k].signal : k \in 1..Len(transitions)}
    /\ \A j, k \in 1..Len(signalsWithTransitions) :
          signalsWithTransitions[j] = signalsWithTransitions[k] => j = k

\* a parse has returned a log of one signal with two or more transitions
\* while another declared signal, which had no transition, is not in the
\* catalog
C6_Witness ==
    /\ Returned
    /\ Len(signalsWithTransitions) = 1
    /\ Len(transitions) >= 2
    /\ \E id \in DOMAIN signalDefs :
          \A k \in 1..Len(signalsWithTransitions) : signalsWithTransitions[k] # signalDefs[id].path

\* the last declaration of an identifier code
LastDeclared(id) ==
    declared[CHOOSE k \in 1..Len(declared) :
                declared[k].id = id /\ \A j \in (k + 1)..Len(declared) : declared[j].id # id]

\* C7: when two declarations use the same identifier code the later one
\* overwrites the earlier: the code maps to the later path and width, and
\* every value change carrying the code is logged under the later path with
\* the later width's formatting.
C7_LaterDeclarationWins ==
    /\ [](/\ DOMAIN signalDefs = {declared[k].id : k \in 1..Len(declared)}
          /\ \A id \in DOMAIN signalDefs :
                /\ signalDefs[id].path = LastDeclared(id).path
                /\ signalDefs[id].width = LastDeclared(id).width)
    /\ [][(DataLoopStep /\ transitions' # transitions) =>
            LET rec == ParseRecord(Trim(raw'))
                new == transitions'[Len(transitions')]
            IN  /\ new.signal = LastDeclared(rec.id).path
                /\ new.value = FormattedValue(rec, LastDeclared(rec.id).width)]_vars

\* a code was declared twice with different paths and widths, and a vector
\* change carrying it was logged under the later path
C7_Witness ==
    /\ Returned
    /\ \E j, k \in 1..Len(declared) :
          /\ j < k
          /\ declared[j].id = declared[k].id
          /\ declared[j].path # declared[k].path
          /\ declared[j].width # declared[k].width
          /\ \E t \in 1..Len(transitions) :
                /\ transitions[t].signal = declared[k].path
                /\ transitions[t].value = "0001 (0x1)"

\* a line the data section accepts: "#" and decimal digits, or a
\* value-change record of a declared identifier code
WellFormedDataLine(line, defs) ==
    \/ StartsWith(line, "#") /\ Len(line) >= 2 /\ AllIn(SliceFrom(line, 1), Digits)
    \/ ParseRecord(line).kind # "none" /\ MapHas(defs, ParseRecord(line).id)

\* C8: malformed input is skipped: a data line that is not a well-formed
\* timestamp or value-change record of a declared identifier leaves the log,
\* the last-value map, the current time and the end time unchanged; and
\* without a timescale declaration the returned timescale is '1 ns'.
C8_MalformedLinesSkipped ==
    /\ [][(DataLoopStep /\ ~WellFormedDataLine(Trim(raw'), signalDefs)) =>
            UNCHANGED <<transitions, lastValues, currentTime, endTime>>]_vars
    /\ []((Returned /\ \A k \in 1..Len(lines) : ~StartsWith(Trim(lines[k]), "$timescale"))
            => timescale = "1 ns")

\* ------------------------------------------------------------------------
\* Properties of formatBits (specification SpecFmt)
\* ------------------------------------------------------------------------
\* C5: for width w > 1 and a value that, padded to w, is purely binary, the
\* stored value is the padded string followed by " (0x<upper-case hex of that
\* binary>)"; for width <= 1 or a value with x or z it is the raw (padded)
\* string without annotation.
C5_FormatRule ==
    fDone =>
        LET fill   == IF Len(fBits) > 0 /\ CharAt(fBits, 1) \in {"x", "X"} THEN "x" ELSE "0"
            padded == PadStart(fBits, fWidth, fill)
            hasXZ  == \E k \in 1..Len(padded) : CharAt(padded, k) \in {"x", "X", "z", "Z"}
        IN  /\ fWidth <= 1 => fOut = fBits
            /\ (fWidth > 1 /\ Len(padded) > 0 /\ AllIn(padded, {"0", "1"}))
                  => fOut = padded \o " (0x" \o HexOfBits(padded) \o ")"
            /\ (fWidth > 1 /\ hasXZ) => fOut = padded

\* ------------------------------------------------------------------------
\* Properties of WaveformIndex.queryTransitions (specification SpecQuery)
\* ------------------------------------------------------------------------
Queried == qCall.op = "queryTransitions"

\* the transitions of the queried signal inside the queried window, in log order
InRange ==
    SelectSeq(qLog, LAMBDA t : /\ t.signal = qCall.signal
                               /\ qCall.tStart <= t.time /\ t.time <= qCall.tEnd)

\* C9: queryTransitions returns at most cap entries, each a transition of
\* the signal inside [tStart, tEnd]; all in-range transitions when there are
\* at most cap of them, and exactly cap entries when there are more.
C9_CapAndRange ==
    Queried =>
        /\ Len(qResult) <= qCall.cap
        /\ \A k \in 1..Len(qResult) :
              /\ \E j \in 1..Len(qLog) : qLog[j] = qResult[k]
              /\ qResult[k].signal = qCall.signal
              /\ qCall.tStart <= qResult[k].time /\ qResult[k].time <= qCall.tEnd
        /\ Len(InRange) <= qCall.cap => qResult = InRange
        /\ Len(InRange) > qCall.cap => Len(qResult) = qCall.cap

\* a query whose window holds more transitions than the cap, but not all
\* of the log, has returned cap entries
C9_Witness ==
    /\ Queried
    /\ qCall.cap >= 2
    /\ Len(InRange) > qCall.cap + 2
    /\ Len(InRange) < Len(qLog)
    /\ Len(qResult) = qCall.cap

\* position (0-based) of a returned entry among the in-range transitions
PosInRange(e) == (CHOOSE j \in 1..Len(InRange) : InRange[j] = e) - 1

\* round(k * n / cap), ties upward, in exact arithmetic
ExactRound(k, n, cap) == (2 * k * n + cap) \div (2 * cap)

\* k * n / cap lies exactly halfway between two integers
IsTie(k, n, cap) == (2 * k * n) % (2 * cap) = cap

Resampled == Queried /\ Len(InRange) > qCall.cap /\ qCall.cap >= 1

\* what C10 says of the indices apart from their exact value
StrideShape ==
    LET n   == Len(InRange)
        cap == qCall.cap
    IN  /\ Len(qResult) = cap
        /\ \A k \in 1..cap : \E j \in 1..n : InRange[j] = qResult[k]
        /\ \A k \in 1..(cap - 1) : PosInRange(qResult[k]) < PosInRange(qResult[k + 1])
        /\ qResult[1] = InRange[1]
        /\ (n - 1) - PosInRange(qResult[cap]) <= (n + cap - 1) \div cap

\* C10 as stated: when the in-range count n exceeds cap, the i-th returned
\* entry is in-range element round(i*n/cap); the indices are inside 0..n-1
\* and strictly increasing, the first entry is the true first one and the
\* last is within ceil(n/cap) positions of the true last.
C10_ExactStride ==
    Resampled =>
        /\ StrideShape
        /\ \A k \in 1..qCall.cap :
              PosInRange(qResult[k]) = ExactRound(k - 1, Len(InRange), qCall.cap)

\* C10 as amended: the i-th returned entry is in-range element
\* round(i*n/cap), or the element just before it when i*n/cap lies exactly
\* halfway between two integers (the product is computed in doubles and can
\* fall below the tie); the other statements stand.
C10_StrideUpToTies ==
    Resampled =>
        /\ StrideShape
        /\ \A k \in 1..qCall.cap :
              LET pos   == PosInRange(qResult[k])
                  exact == ExactRound(k - 1, Len(InRange), qCall.cap)
              IN  \/ pos = exact
                  \/ pos = exact - 1 /\ IsTie(k - 1, Len(InRange), qCall.cap)

\* a resampled query has returned an entry one position below the exact
\* rounding, at a tie
C10_Witness ==
    /\ Resampled
    /\ \E k \in 1..qCall.cap :
          /\ IsTie(k - 1, Len(InRange), qCall.cap)
          /\ PosInRange(qResult[k]) = ExactRound(k - 1, Len(InRange), qCall.cap) - 1
    /\ PosInRange(qResult[qCall.cap]) > qCall.cap

\* ------------------------------------------------------------------------
\* Properties of WaveformIndex.getValueAt (specification SpecQuery)
\* ------------------------------------------------------------------------
Looked == qCall.op = "getValueAt"

\* the transitions of the signal asked, in log order
AskedBucket == SelectSeq(qLog, LAMBDA t : t.signal = qCall.signal)

SortedByTime(ts) == \A k \in 1..(Len(ts) - 1) : JsLe(ts[k].time, ts[k + 1].time)

\* positions of the transitions of ts at or before time
AtOrBefore(ts, time) == {k \in 1..Len(ts) : JsLe(ts[k].time, time)}

\* the answer of a linear scan: the value of the last transition at or before
\* time, 'x' if there is none
LinearScan(ts, time) ==
    IF AtOrBefore(ts, time) = {} THEN "x"
    ELSE ts[CHOOSE k \in AtOrBefore(ts, time) : \A j \in AtOrBefore(ts, time) : j <= k].value

\* C11: for a bucket sorted by time getValueAt(signal, t) is the value of the
\* last transition of the bucket with time <= t, as a linear scan finds it:
\* 'x' before every transition, the last value at or after the last
\* transition, and at a transition's own time that transition's value.
C11_ValueAtIsLinearScan ==
    (Looked /\ SortedByTime(AskedBucket)) =>
        /\ qValue = LinearScan(AskedBucket, qCall.time)
        /\ (\A k \in 1..Len(AskedBucket) : ~JsLe(AskedBucket[k].time, qCall.time))
              => qValue = "x"
        /\ (Len(AskedBucket) > 0 /\ JsGe(qCall.time, AskedBucket[Len(AskedBucket)].time))
              => qValue = AskedBucket[Len(AskedBucket)].value

\* getValueAt was asked the exact time of a transition inside a sorted bucket
\* of several transitions and answered that transition's value, which is not
\* the value before it
C11_Witness ==
    /\ Looked
    /\ SortedByTime(AskedBucket)
    /\ Len(AskedBucket) >= 5
    /\ \E k \in 2..(Len(AskedBucket) - 1) :
          /\ AskedBucket[k].time = qCall.time
          /\ AskedBucket[k + 1].time > qCall.time
          /\ qValue = AskedBucket[k].value
          /\ qValue # AskedBucket[k - 1].value

\* C12: a query for a signal the index does not know is no error:
\* queryTransitions returns the empty list and getValueAt returns 'x', for
\* every window, time and cap, and no call changes the index.
C12_UnknownSignalIsEmpty ==
    /\ []((Queried /\ ~LogHas(qLog, qCall.signal)) => qResult = << >>)
    /\ []((Looked /\ ~LogHas(qLog, qCall.signal)) => qValue = "x")
    /\ [][UNCHANGED <<qLog, qSignals, bySignal>>]_vars

\* getValueAt has answered 'x' for a signal that an index of two other
\* signals does not know
C12_Witness ==
    /\ Looked
    /\ qCall.signal = "nosuch"
    /\ DOMAIN bySignal = {"a", "b"}
    /\ Len(qLog) >= 4
    /\ qCall.time >= 2
    /\ qValue = "x"

\* ------------------------------------------------------------------------
\* Properties of collectTransitions (specifications SpecSampler, SpecSamplerFair)
\* ------------------------------------------------------------------------
SamplerReturned == sPc = "done"

\* a step of the sampling loop: the poll answered by sRaw' at time sTime
PollStep == sPc = "loop" /\ sOdd' # sOdd

\* C13: step capping: for a positive stepSize the number of polls of one
\* collection run is at most MAX_SAMPLE_ITERATIONS.
C13_PollsAtMostCeiling ==
    sStep > 0 => sPolls <= MAX_SAMPLE_ITERATIONS

\* C14: for every startTime, endTime and stepSize (also stepSize <= 0 and
\* startTime = endTime) the sampling loop terminates, every poll returning.
C14_SamplingTerminates == <>SamplerReturned

\* the current value a viewer reports: the last element of a [previous,
\* current] pair, a single value as itself
CurrentOf(value) ==
    LET parsed == JsonParse(value)
    IN  IF ~parsed.ok THEN value
        ELSE IF parsed.isArray
        THEN (IF Len(parsed.elems) = 0 THEN "undefined" ELSE parsed.elems[Len(parsed.elems)])
        ELSE parsed.scalar

\* C18: when a poll reports a value as a [previous, current] pair the value
\* recorded for the signal at that tick is the last element of the pair,
\* never the previous one; a single value is recorded as itself.
C18_PairRecordsCurrent ==
    [][PollStep =>
          \A k \in 1..Len(sRaw'.entries) :
              LET entry == sRaw'.entries[k]
              IN  /\ MapHas(sLast', entry.instancePath)
                  /\ sLast'[entry.instancePath] = StrValue(CurrentOf(entry.value))]_vars

\* the records a response adds to a log: one for each entry whose formatted
\* value is not the last one logged for its signal (the signals of a
\* response being distinct)
Added(log, time, response) ==
    LET differs(e) == ~LogHas(log, e.instancePath)
                         \/ LastLogged(log, e.instancePath) # StrValue(BitsOf(e.value))
        kept == SelectSeq(response.entries, differs)
    IN  [k \in 1..Len(kept) |->
            [time |-> time, signal |-> kept[k].instancePath,
             value |-> StrValue(BitsOf(kept[k].value))]]

\* C19: a polled sample appends exactly one transition and updates the
\* last-value map when its formatted value differs from the signal's last
\* known value (always at the first observation of a signal) and appends
\* nothing otherwise; so the log has no two consecutive equal values of a
\* signal and its times are non-decreasing.
C19_SamplerDedup ==
    /\ [][PollStep =>
            /\ sLog' = sLog \o Added(sLog, sTime, sRaw')
            /\ \A k \in 1..Len(sRaw'.entries) :
                  sLast'[sRaw'.entries[k].instancePath]
                      = StrValue(BitsOf(sRaw'.entries[k].value))]_vars
    /\ [](NoRepeatedValue(sLog))
    /\ [](\A k \in 1..(Len(sLog) - 1) : sLog[k].time <= sLog[k + 1].time)


\* ------------------------------------------------------------------------
\* Early exits and cancellation of the sampler (SpecExits)
\* ------------------------------------------------------------------------

\* C15: when 5 consecutive polls return a fully empty response, collection
\* halts before the loop reaches endTime, and no further poll is issued
\* after the fifth.
C15_EmptyStreakHalts == [][eEmpty >= 5 => ~PollStep]_vars

\* C16: once an informative sample has been seen, 5 consecutive polls in
\* which no signal changes value and no [previous, current] edge is reported
\* halt collection: no further poll is issued after them.
C16_NoChangeStreakHalts == [][(eInformative /\ eSame >= 5) => ~PollStep]_vars

\* C17: after cancellation is requested no later iteration issues a poll,
\* and the transitions accumulated before it are what is returned.
C17_CancelStopsPolling == [][eCancel => (~PollStep /\ sLog' = sLog)]_vars

\* ------------------------------------------------------------------------
\* The window of buildWaveformContext (SpecWindow)
\* ------------------------------------------------------------------------
\* the window has been resolved
WindowResolved == wPc \in {"collect", "done"} /\ wHasUri /\ wSignals > 0

\* the priority rules: both markers, exactly one marker, no marker
PriorityWindow(state, tFrom, tTo) ==
    IF state.markerTime.set /\ state.altMarkerTime.set
    THEN <<MathMin(state.markerTime.v, state.altMarkerTime.v),
           MathMax(state.markerTime.v, state.altMarkerTime.v)>>
    ELSE IF state.markerTime.set THEN <<tFrom, state.markerTime.v>>
    ELSE IF state.altMarkerTime.set THEN <<tFrom, state.altMarkerTime.v>>
    ELSE <<tFrom, Coalesce(vcdEnd(state), Some(tTo)).v>>

\* C20: the window resolved equals the priority rules for every combination
\* of markers and defaults: both markers give [min, max] of the two, exactly
\* one marker gives [defaultStart, thatMarker], no marker gives
\* [defaultStart, the reported end of the simulation, else defaultEnd].
C20_WindowIsPriorityRules ==
    WindowResolved =>
        <<wStart, wEnd>> = PriorityWindow(wState, wArgs.startTime, wArgs.endTime)

\* C21: for every combination of markers, default start, default end and
\* reported end of the simulation, the window resolved, the window handed to
\* the sampler and the window stored in the context have start <= end.
C21_WindowOrdered ==
    /\ WindowResolved => (wStart <= wEnd /\ sStart = wStart /\ sEnd = wEnd)
    /\ (wPc = "done" /\ ~wCtx.isNull) =>
           (wCtx.startTime <= wCtx.endTime /\ wCtx.startTime = wStart /\ wCtx.endTime = wEnd)

\* a context was returned for markers that come in descending order:
\* the secondary marker after the primary one
C21_Witness ==
    /\ wPc = "done"
    /\ ~wCtx.isNull
    /\ wState.markerTime.set /\ wState.altMarkerTime.set
    /\ wState.altMarkerTime.v > wState.markerTime.v
    /\ wCtx.startTime = wState.markerTime.v
    /\ wCtx.endTime = wState.altMarkerTime.v

\* ------------------------------------------------------------------------
\* The format adapter (SpecAdapter)
\* ------------------------------------------------------------------------
\* the call is one of an .fst file and is over or in parseVcd
Converted == EndsWith(PathToLowerCase(aPath), ".fst") /\ aPc \in {"parse", "done"}

IsInstallError(out) == out.kind = "error" /\ StartsWith(out.message, "fst2vcd not found")

IsFailedError(out) == out.kind = "error" /\ StartsWith(out.message, "fst2vcd failed")

\* C22: fstToVcdText has three outcomes: an absent converter (ENOENT) gives
\* the "fst2vcd not found ... install" error; a converter that ran and failed
\* or printed nothing gives the "fst2vcd failed" error and never the install
\* error; otherwise the converter's text is what parseVcd is given.  Empty
\* output is never a successful parse.
C22_ThreeOutcomes ==
    Converted =>
        /\ (~aExec.ok /\ aExec.code = "ENOENT") =>
               (aPc = "done" /\ IsInstallError(aOut))
        /\ ((~aExec.ok /\ aExec.code # "ENOENT") \/ (aExec.ok /\ IsEmptyText(aExec.stdout))) =>
               (aPc = "done" /\ IsFailedError(aOut) /\ ~IsInstallError(aOut))
        /\ (aExec.ok /\ ~IsEmptyText(aExec.stdout)) =>
               /\ aOut.kind # "error"
               /\ SubSeq(lines, 1, Len(aExec.stdout)) = aExec.stdout
               /\ aPc = "done" => aOut.kind = "result"

\* each outcome has happened: the converter printed nothing and the call
\* ended in the conversion-failure error
C22_Witness ==
    /\ Converted
    /\ aExec.ok /\ IsEmptyText(aExec.stdout)
    /\ aPc = "done"
    /\ IsFailedError(aOut)

LoadableFiles == {p \in DOMAIN ServerFiles : ServerFiles[p].exists /\ ServerFiles[p].ok}

\* the index is the complete index of one file
CompleteIndex(index) == \E p \in LoadableFiles : index = NewIndex(p)

ReadingTools == {"list_signals", "query_transitions", "get_value_at"}

\* what a reading tool answered is what the complete index of one file gives
ReplyOfOneFile(reply) ==
    /\ reply.uri \in LoadableFiles
    /\ CASE reply.tool = "list_signals" ->
              reply.data = listSignals(NewIndex(reply.uri).signals, NewIndex(reply.uri).bySignal)
         [] reply.tool = "query_transitions" ->
              \E signal \in ToolSignals, w \in ToolWindows :
                  reply.data = queryTransitions(NewIndex(reply.uri).bySignal, signal,
                                                w[1], w[2], TRANSITION_CAP)
         [] OTHER ->
              \E signal \in ToolSignals, time \in ToolTimes :
                  reply.data = <<getValueAt(NewIndex(reply.uri).bySignal, signal, time)>>

\* a load_waveform ends without loading: file missing, or parse or conversion failed
FailedLoadStep ==
    /\ mReply'.tool = "load_waveform"
    /\ mReply'.kind \in {"notfound", "error"}
    /\ (mCalls' # mCalls \/ mLoading' # mLoading)
    /\ (mLoading' # mLoading => ~ServerFiles[mReply'.uri].ok)
    /\ (mCalls' # mCalls => mLoading' = mLoading)

\* a reading tool is called
ReadStep == mCalls' # mCalls /\ mLoading' = mLoading /\ mReply'.tool \in ReadingTools

\* C23: reload replaces the index wholesale: the index the tools see is absent
\* (they answer "No waveform loaded") or the complete index of one parsed
\* file, never a mixture of two; a load_waveform whose file is missing or
\* whose parse or conversion fails leaves the loaded index in place.
C23_IndexWholesale ==
    /\ [](~mIndex.loaded => mIndex = NoIndex)
    /\ [](mIndex.loaded => CompleteIndex(mIndex))
    /\ [][ReadStep => IF mIndex.loaded
                      THEN mReply'.uri = mIndex.uri /\ ReplyOfOneFile(mReply')
                      ELSE mReply'.kind = "noWaveform"]_vars
    /\ [][FailedLoadStep => mIndex' = mIndex]_vars

\* a file was loaded over another one while a third load was failing, and the
\* index is the second file's
C23_Witness ==
    /\ mIndex = NewIndex("b.vcd")
    /\ mReply.tool = "load_waveform" /\ mReply.kind = "error"
    /\ mCalls >= 3

\* ------------------------------------------------------------------------
\* Scopes and paths of the header (SpecHeader)
\* ------------------------------------------------------------------------
\* the tokens of the lines read so far, in order
RECURSIVE TokensOfLines(_, _)
TokensOfLines(ls, n) ==
    IF n = 0 THEN << >> ELSE TokensOfLines(ls, n - 1) \o Tokens(ls[n])

\* the tokens after the first "$end"
RECURSIVE AfterEnd(_)
AfterEnd(tk) ==
    IF tk = << >> THEN << >>
    ELSE IF Head(tk) = "$end" THEN Tail(tk)
    ELSE AfterEnd(Tail(tk))

\* a name without its trailing [msb:lsb]
WithoutRange(name) ==
    IF EndsWith(name, "]") /\ IndexOf(name, "[") >= 0 THEN Slice(name, 0, IndexOf(name, "["))
    ELSE name

\* the declarations of a token stream read statement by statement, each with
\* the scopes open at it: [id, path] in order, and the scopes left open
RECURSIVE ScopeWalk(_, _, _)
ScopeWalk(tk, open, out) ==
    IF tk = << >> \/ Head(tk) = "$enddefinitions" THEN [open |-> open, out |-> out]
    ELSE IF Head(tk) = "$scope" THEN ScopeWalk(AfterEnd(tk), Append(open, tk[3]), out)
    ELSE IF Head(tk) = "$upscope"
         THEN ScopeWalk(AfterEnd(tk), SubSeq(open, 1, Len(open) - 1), out)
    ELSE IF Head(tk) = "$var"
         THEN ScopeWalk(AfterEnd(tk), open,
                        Append(out, [id |-> tk[4],
                                     path |-> JoinDot(Append(open, WithoutRange(tk[5])))]))
    ELSE ScopeWalk(AfterEnd(tk), open, out)

\* C27: during header parsing the scope stack follows $scope (push) and
\* $upscope (pop), and the path of each declared variable is the names of
\* the scopes open at its declaration joined by "." and followed by its name
\* without a trailing bit range; a variable declared after an $upscope does
\* not carry the closed scope.
C27_PathsFollowScopes ==
    pc = "header" =>
        LET walk == ScopeWalk(TokensOfLines(lines, i), << >>, << >>)
        IN  /\ scopeStack = walk.open
            /\ Len(declared) = Len(walk.out)
            /\ \A k \in 1..Len(declared) :
                  /\ declared[k].id = walk.out[k].id
                  /\ declared[k].path = walk.out[k].path
            /\ \A id \in DOMAIN signalDefs :
                  \E k \in 1..Len(walk.out) :
                      /\ walk.out[k].id = id
                      /\ walk.out[k].path = signalDefs[id].path
                      /\ \A j \in (k + 1)..Len(walk.out) : walk.out[j].id # id

\* a variable was declared inside a scope opened over two lines, and
\* another after that scope was closed
C27_Witness ==
    /\ pc = "header"
    /\ Len(declared) = 2
    /\ declared[1].path = "u1.data"
    /\ declared[2].path = "clk"
    /\ scopeStack = << >>

\* ------------------------------------------------------------------------
\* C25: stopping a response does not lose conversation history
\* ------------------------------------------------------------------------
\* the entries of before are the first entries of after, in the same order
HistoryKeeps(after, before) ==
    /\ Len(before) <= Len(after)
    /\ SubSeq(after, 1, Len(before)) = before

\* the call of query q was aborted by a 'stop' while in flight and has returned
Stopped(q) == q \in pAborted /\ pQ[q].pc = "done"

\* C25: after a 'stop' that aborted an in-flight query, every history entry
\* that existed before that query started is still present, in the same
\* order (as long as no 'refresh' or 'marker_query' cleared the history).
C25_StopKeepsHistory ==
    \A q \in Queries :
        (Stopped(q) /\ pQ[q].kept) => HistoryKeeps(pHistory, pQ[q].hBefore)

\* ------------------------------------------------------------------------
\* C26: the waveform context is fetched once per session
\* ------------------------------------------------------------------------
\* the call of query q starts in this step
Starts(q) == pQ[q].pc = "idle" /\ pQ'[q].pc # "idle"

\* the call of query q collects context: it polls the viewer, or takes the
\* preloaded context, and collects the HDL context to inject them
Collects(q) == pQ'[q].pc \in {"collectA", "collectB"}

\* C26: after a query has injected context (set waveformContextSent), no
\* later query polls the viewer or injects context again until a 'refresh'
\* or a 'marker_query' resets the session; and a reset clears the whole
\* history and the flag together.
C26_ContextOncePerSession ==
    [][/\ \A q \in Queries : (Starts(q) /\ pInjected /\ pInjected') => ~Collects(q)
       /\ (pInjected /\ ~pInjected') => (pHistory' = << >> /\ ~pSent')]_vars

\* ------------------------------------------------------------------------
\* C28: every 'collecting' is followed by exactly one terminating message
\* ------------------------------------------------------------------------
\* the call of query q posted 'collecting' and is over: it returned or rejected
Over(q) == pQ[q].pc \in {"done", "crashed"}

\* C28: a query whose handling is over, on any path, has posted exactly one
\* terminating message, 'stream_end' or 'error', after its 'collecting'.
C28_OneTerminatingMessage ==
    \A q \in Queries : Over(q) => pQ[q].terms = 1

\* ------------------------------------------------------------------------
\* C29: 'stop' reaches a query in flight
\* ------------------------------------------------------------------------
\* C29: whenever a query is in flight, currentAbortController is the
\* controller of a query that is still running, so that a 'stop' aborts it.
C29_ControllerOfRunning ==
    (\E q \in Queries : Running(q)) => (pCtl # 0 /\ Running(pCtl))

\* ------------------------------------------------------------------------
\* C30: the history alternates roles
\* ------------------------------------------------------------------------
\* C30: the history alternates roles starting with 'user': no two consecutive
\* user messages, and each assistant message directly follows the user
\* message of the query that produced it.
C30_HistoryAlternates ==
    \A k \in DOMAIN pHistory :
        IF k % 2 = 1
        THEN pHistory[k].role = "user"
        ELSE /\ pHistory[k].role = "assistant"
             /\ pHistory[k].q = pHistory[k - 1].q

\* ------------------------------------------------------------------------
\* C31: of two load_waveform requests the later one wins
\* ------------------------------------------------------------------------
\* every load_waveform request issued so far has completed, and all succeeded
LoadsCompleted ==
    /\ mLoading = {}
    /\ \A k \in DOMAIN mIssued : ServerFiles[mIssued[k]].ok

C32_InstanceIsThePanel ==
    /\ Cardinality(cAlive) <= 1
    /\ cAlive # {} => cInstance \in cAlive

\* ------------------------------------------------------------------------
\* C33: the tool executor discloses the selected signals only
\* ------------------------------------------------------------------------
\* C33: with a non-empty selection, two indexes that agree on the selected
\* signals give identical tool results for every call: no tool discloses a
\* transition or value of a signal outside the selection.
C33_SelectionOnly ==
    (xSel.set /\ xCalls > 0) => xOut = xOutOther

\* ------------------------------------------------------------------------
\* C35: the truncation note of query_transitions
\* ------------------------------------------------------------------------
\* the transitions of the signal asked that lie in the range asked
ExecInRange ==
    Filter(Bucket(xIdx.bySignal, xCall.signal.v),
           Coalesce(xCall.t_start, Some(0)).v,
           Coalesce(xCall.t_end, Some(xIdx.endTime)).v)

\* C35: the answer of query_transitions carries the 'Truncated at 150' note
\* exactly when more than 150 transitions are in range, that is, exactly when
\* some in-range transition was left out of the answer.
C35_NoteIffTruncated ==
    (xCall.name = "query_transitions" /\ xOut.kind = "transitions")
        => (xOut.note <=> Len(ExecInRange) > TRANSITION_CAP)

\* the last round ran and its response held no tool call
NoToolRound == lPc = "done" /\ lRequests > 0 /\ lResp.tools = 0

\* the texts of the model in the last round: the content of the response,
\* '' when it has none, or the text of the retry
ModelTexts ==
    {lResp.text.v} \cup (IF lRetries > 0 THEN {r.v : r \in {t \in RetryTexts : t.set}} ELSE {})

\* C34: chatWithTools issues at most 10 requests of tool-calling rounds and
\* at most one plain-text retry; when a round holds no tool call it returns
\* the text of the model; after the tenth round it returns the fixed message
\* of the exceeded rounds; when the signal is aborted at the head of a round
\* it returns '' and has issued no further request.
C34_LoopTerminates ==
    /\ lRequests <= ROUND_LIMIT
    /\ lRetries <= 1
    /\ NoToolRound => lResult \in ModelTexts
    /\ (lPc = "done" /\ lRound = ROUND_LIMIT) => lResult = ExceededText
    /\ (lPc = "done" /\ lExit = "aborted") => (lResult = "" /\ lRequests = lRound)

\* initialize() has finished and every event fired has been delivered
Settled == tPc = "done" /\ vEvents = << >>

\* C36: once initialize() has finished and every add and remove event has
\* been delivered, getSignals(uri) is the set of the signals the viewer
\* displays for the uri, for every uri.
C36_TrackedIsDisplayed ==
    Settled => \A u \in TrackUris : getSignals(tSignals, u) = vShown[u]

====
